---- MODULE Spec2Model ----
(***************************************************************************)
(* A model of python-cjson (src/cjson.c): the recursive-descent JSON       *)
(* decoder over a cursor into a NUL-terminated byte buffer, and the        *)
(* recursive encoder over a tree of Python objects.                        *)
(*                                                                         *)
(* Text is a sequence of character codes (bytes 0..255 for buffers and     *)
(* str objects, code points for unicode objects).  Offsets into a buffer   *)
(* are 0-based as in the C code; Byte(s, p) reads the byte at offset p and *)
(* yields the terminating NUL at offset Len(s).                            *)
(***************************************************************************)
EXTENDS Integers, Sequences, FiniteSets, TLC

VARIABLES
    str,      \* JSONData.str: the input buffer of the running decode call
    ptr,      \* JSONData.ptr: the cursor, as an offset from str
    pc,       \* position of the running call
    stack,    \* active decode_array / decode_object frames, innermost last
    ret,      \* value returned by the call that has just returned (NULL on failure)
    err,      \* the pending Python exception
    depth,    \* the interpreter's recursion counter (Py_EnterRecursiveCall)
    heap,     \* the list, tuple and dict objects of the value being encoded
    cur,      \* the object encode_object has been called on
    estack,   \* active encode_list / encode_tuple / encode_dict frames
    reprs,    \* the objects marked by Py_ReprEnter
    object,   \* the object the running JSON_encode call was given
    all_unicode, \* JSONData.all_unicode: the flag the decode call was given
    wide      \* the build: Py_UNICODE_WIDE (UCS-4) or narrow (UCS-2)

vars == <<str, ptr, pc, stack, ret, err, depth, heap, cur, estack, reprs,
          object, all_unicode, wide>>
build == <<all_unicode, wide>>
encvars == <<heap, cur, estack, reprs, object>>

-----------------------------------------------------------------------------
(* Characters *)

Printable ==
    <<" ", "!", "\"", "#", "$", "%", "&", "'", "(", ")", "*", "+", ",", "-",
      ".", "/", "0", "1", "2", "3", "4", "5", "6", "7", "8", "9", ":", ";",
      "<", "=", ">", "?", "@", "A", "B", "C", "D", "E", "F", "G", "H", "I",
      "J", "K", "L", "M", "N", "O", "P", "Q", "R", "S", "T", "U", "V", "W",
      "X", "Y", "Z", "[", "\\", "]", "^", "_", "grave", "a", "b", "c", "d", "e",
      "f", "g", "h", "i", "j", "k", "l", "m", "n", "o", "p", "q", "r", "s",
      "t", "u", "v", "w", "x", "y", "z", "{", "|", "}", "~">>

\* The code of a printable ASCII character, and of a literal written as a
\* tuple of one-character strings.
Ord(ch) == 31 + CHOOSE i \in 1..Len(Printable) : Printable[i] = ch
Lit(s) == [i \in 1..Len(s) |-> Ord(s[i])]

NUL == 0
BS == 8
TAB == 9
LF == 10
VT == 11
FF == 12
CR == 13
SPACE == 32
DEL == 127

QUOTE == Ord("\"")
BACKSLASH == Ord("\\")
SLASH == Ord("/")
PLUS == Ord("+")
MINUS == Ord("-")
DOT == Ord(".")
COMMA == Ord(",")
COLON == Ord(":")
LBRACKET == Ord("[")
RBRACKET == Ord("]")
LBRACE == Ord("{")
RBRACE == Ord("}")
ZERO == Ord("0")
NINE == Ord("9")

Digits == ZERO..NINE

RECURSIVE Concat(_)
Concat(ss) == IF ss = <<>> THEN <<>> ELSE Head(ss) \o Concat(Tail(ss))

\* s[a..b) by 0-based offsets
Slice(s, a, b) == [i \in 1..(b - a) |-> s[a + i]]

\* *(str + p): the buffer is NUL-terminated at offset Len(s)
Byte(s, p) == IF p < Len(s) THEN s[p + 1] ELSE NUL

\* <ctype.h> in the "C" locale
isspace(c) == c \in {SPACE, TAB, LF, VT, FF, CR}
isdigit(c) == c \in Digits

\* #define skipSpaces(d): the offset the cursor is left at
RECURSIVE skipSpaces(_, _)
skipSpaces(s, p) == IF isspace(Byte(s, p)) THEN skipSpaces(s, p + 1) ELSE p

\* #define skipDigits(ptr)
RECURSIVE skipDigits(_, _)
skipDigits(s, p) == IF isdigit(Byte(s, p)) THEN skipDigits(s, p + 1) ELSE p

\* strncmp(str + p, kw, Len(kw)) == 0, guarded by left >= Len(kw)
Matches(s, p, kw) ==
    /\ Len(s) - p >= Len(kw)
    /\ \A i \in 1..Len(kw) : s[p + i] = kw[i]

-----------------------------------------------------------------------------
(* Python objects *)

NULL == [t |-> "NULL", v |-> 0]
Py_None == [t |-> "none", v |-> 0]
Py_True == [t |-> "bool", v |-> 1]
Py_False == [t |-> "bool", v |-> 0]
PyInt(n) == [t |-> "int", v |-> n]
\* a double: NaN, an infinity, or the finite (-1)^neg * m * 10^e with m
\* free of trailing zeros (e = 0 when m = 0)
PyFloat(k, neg, m, e) ==
    [t |-> "float", v |-> [k |-> k, neg |-> neg, m |-> m, e |-> e]]
PyFloat_NaN == PyFloat("nan", FALSE, 0, 0)
PyFloat_Inf == PyFloat("inf", FALSE, 0, 0)
PyFloat_NegInf == PyFloat("inf", TRUE, 0, 0)
PyFinite(neg, m, e) == PyFloat("fin", neg, m, e)
PyString(s) == [t |-> "str", v |-> s]
PyUnicode(s) == [t |-> "unicode", v |-> s]
PyList(items) == [t |-> "list", v |-> items]
PyDict(entries) == [t |-> "dict", v |-> entries]

NoError == [type |-> "none", msg |-> "", pos |-> -1]
DecodeError(m, p) == [type |-> "DecodeError", msg |-> m, pos |-> p]
EncodeError(m) == [type |-> "EncodeError", msg |-> m, pos |-> -1]
RuntimeError(m) == [type |-> "RuntimeError", msg |-> m, pos |-> -1]

\* what a leaf decoder hands back: the object (or NULL), the cursor, the error
Outcome(val, p, e) == [val |-> val, ptr |-> p, err |-> e]

-----------------------------------------------------------------------------
(* Decoding: the leaf decoders, each a function of the buffer and cursor *)

kw_null == Lit(<<"n", "u", "l", "l">>)
kw_true == Lit(<<"t", "r", "u", "e">>)
kw_false == Lit(<<"f", "a", "l", "s", "e">>)
kw_NaN == Lit(<<"N", "a", "N">>)
kw_Infinity == Lit(<<"I", "n", "f", "i", "n", "i", "t", "y">>)
kw_PlusInfinity == <<PLUS>> \o kw_Infinity
kw_MinusInfinity == <<MINUS>> \o kw_Infinity

CannotParseCtx == "cannot parse JSON description: %.20s"


\* a decode_null that compares three characters and skips four
decode_null_Short(s, p) ==
    IF Matches(s, p, SubSeq(kw_null, 1, 3))
    THEN Outcome(Py_None, p + 4, NoError)
    ELSE Outcome(NULL, p, DecodeError(CannotParseCtx, -1))

decode_null(s, p) ==
    IF Matches(s, p, kw_null)
    THEN Outcome(Py_None, p + 4, NoError)
    ELSE Outcome(NULL, p, DecodeError(CannotParseCtx, -1))

decode_bool(s, p) ==
    IF Matches(s, p, kw_true)
    THEN Outcome(Py_True, p + 4, NoError)
    ELSE IF Matches(s, p, kw_false)
    THEN Outcome(Py_False, p + 5, NoError)
    ELSE Outcome(NULL, p, DecodeError(CannotParseCtx, -1))

decode_inf(s, p) ==
    IF Matches(s, p, kw_Infinity)
    THEN Outcome(PyFloat_Inf, p + 8, NoError)
    ELSE IF Matches(s, p, kw_PlusInfinity)
    THEN Outcome(PyFloat_Inf, p + 9, NoError)
    ELSE IF Matches(s, p, kw_MinusInfinity)
    THEN Outcome(PyFloat_NegInf, p + 9, NoError)
    ELSE Outcome(NULL, p, DecodeError(CannotParseCtx, -1))

decode_nan(s, p) ==
    IF Matches(s, p, kw_NaN)
    THEN Outcome(PyFloat_NaN, p + 3, NoError)
    ELSE Outcome(NULL, p, DecodeError(CannotParseCtx, -1))

\* The validating scan of decode_number, part by part: each yields the offset
\* just past its part, or -1 at number_error.
ScanInt_AnyDigits(s, p) ==
    IF isdigit(Byte(s, p)) THEN skipDigits(s, p) ELSE -1

ScanInt(s, p) ==
    IF Byte(s, p) = ZERO
    THEN IF isdigit(Byte(s, p + 1)) THEN -1 ELSE p + 1
    ELSE IF isdigit(Byte(s, p)) THEN skipDigits(s, p)
    ELSE -1

ScanFrac(s, p) ==
    IF Byte(s, p) # DOT THEN p
    ELSE IF ~isdigit(Byte(s, p + 1)) THEN -1
    ELSE skipDigits(s, p + 1)

ScanExp(s, p) ==
    LET q == IF Byte(s, p + 1) \in {PLUS, MINUS} THEN p + 2 ELSE p + 1
    IN  IF Byte(s, p) \notin {Ord("e"), Ord("E")} THEN p
        ELSE IF ~isdigit(Byte(s, q)) THEN -1
        ELSE skipDigits(s, q)

\* the whole scan: the offset just past the literal (-1 at number_error) and
\* whether it is floating point
ScanNumber(s, p) ==
    LET p1 == IF Byte(s, p) \in {MINUS, PLUS} THEN p + 1 ELSE p
        p2 == ScanInt(s, p1)
        p3 == IF p2 < 0 THEN -1 ELSE ScanFrac(s, p2)
        p4 == IF p3 < 0 THEN -1 ELSE ScanExp(s, p3)
    IN  [end |-> p4,
         is_float |-> \/ p2 >= 0 /\ Byte(s, p2) = DOT
                      \/ p3 >= 0 /\ Byte(s, p3) \in {Ord("e"), Ord("E")}]

\* the value of a run of decimal digits
RECURSIVE DecVal(_)
DecVal(ds) ==
    IF ds = <<>> THEN 0
    ELSE 10 * DecVal(SubSeq(ds, 1, Len(ds) - 1)) + (ds[Len(ds)] - ZERO)

\* PyInt_FromString(text, NULL, 10) on a literal the scan has accepted
PyInt_FromString(text) ==
    LET signed == text[1] \in {MINUS, PLUS}
        ds == IF signed THEN Tail(text) ELSE text
    IN  PyInt(IF text[1] = MINUS THEN 0 - DecVal(ds) ELSE DecVal(ds))

\* m * 10^e without the trailing zeros of m
RECURSIVE Normalize(_, _)
Normalize(m, e) ==
    IF m = 0 THEN <<0, 0>>
    ELSE IF m % 10 = 0 THEN Normalize(m \div 10, e + 1)
    ELSE <<m, e>>

RECURSIVE NumDigits(_)
NumDigits(m) == IF m < 10 THEN 1 ELSE 1 + NumDigits(m \div 10)

\* PyFloat_FromString(text, NULL) on a literal the scan has accepted
PyFloat_FromString(text) ==
    LET neg  == text[1] = MINUS
        body == IF text[1] \in {MINUS, PLUS} THEN Tail(text) ELSE text
        n    == Len(body)
        ipos == skipDigits(body, 0)
        fend == IF Byte(body, ipos) = DOT THEN skipDigits(body, ipos + 1)
                ELSE ipos
        frac == IF fend > ipos THEN Slice(body, ipos + 1, fend) ELSE <<>>
        eneg == fend < n /\ Byte(body, fend + 1) = MINUS
        epos == IF fend < n /\ Byte(body, fend + 1) \in {PLUS, MINUS}
                THEN fend + 2 ELSE fend + 1
        ex   == IF fend < n
                THEN (IF eneg THEN 0 - DecVal(Slice(body, epos, n))
                      ELSE DecVal(Slice(body, epos, n)))
                ELSE 0
        me   == Normalize(DecVal(Slice(body, 0, ipos) \o frac), ex - Len(frac))
        decpt == NumDigits(me[1]) + me[2]
    IN  IF me[1] = 0 THEN PyFinite(neg, 0, 0)
        \* beyond the range of a double: overflow to an infinity (above about
        \* 1.8e308), underflow to zero (below about 4.9e-324)
        ELSE IF decpt > 309 THEN PyFloat("inf", neg, 0, 0)
        ELSE IF decpt < 0 - 323 THEN PyFinite(neg, 0, 0)
        ELSE PyFinite(neg, me[1], me[2])

InvalidNumber == "invalid number starting at position"

decode_number_PositionInNumber(s, p) ==
    LET sc == ScanNumber(s, p)
        text == Slice(s, p, sc.end)
    IN  IF sc.end < 0
        THEN Outcome(NULL, p, DecodeError(InvalidNumber, skipDigits(s, p + 1)))
        ELSE Outcome(IF sc.is_float THEN PyFloat_FromString(text)
                     ELSE PyInt_FromString(text),
                     sc.end, NoError)

decode_number(s, p) ==
    LET sc == ScanNumber(s, p)
        text == Slice(s, p, sc.end)
    IN  IF sc.end < 0
        THEN Outcome(NULL, p, DecodeError(InvalidNumber, p))
        ELSE Outcome(IF sc.is_float THEN PyFloat_FromString(text)
                     ELSE PyInt_FromString(text),
                     sc.end, NoError)

\* decode_string's scan for the closing quote, from offset q: the offset of
\* the closing quote (-1 when the NUL is met first) and the three flags.
RECURSIVE ScanString(_, _, _, _)
ScanString(s, q, escaping, fl) ==
    LET c == Byte(s, q)
    IN  IF c = NUL THEN [fl EXCEPT !.close = -1]
        ELSE IF ~escaping
        THEN IF c = BACKSLASH THEN ScanString(s, q + 1, TRUE, fl)
             ELSE IF c = QUOTE THEN [fl EXCEPT !.close = q]
             ELSE ScanString(s, q + 1, FALSE,
                             IF c > DEL THEN [fl EXCEPT !.has_unicode = TRUE]
                             ELSE fl)
        ELSE ScanString(s, q + 1, FALSE,
                 IF c = Ord("u") THEN [fl EXCEPT !.has_unicode = TRUE]
                 ELSE IF c \in {QUOTE, Ord("r"), Ord("n"), Ord("t"), Ord("b"),
                                Ord("f"), BACKSLASH}
                 THEN [fl EXCEPT !.string_escape = TRUE]
                 ELSE IF c = SLASH THEN [fl EXCEPT !.slash_unescape = TRUE]
                 ELSE fl)

NoFlags ==
    [close |-> -1, has_unicode |-> FALSE, string_escape |-> FALSE,
     slash_unescape |-> FALSE]

\* the in-place loop that drops the backslash of every "\/" of the copy
RECURSIVE UnescapeSlashes(_, _)
UnescapeSlashes(t, i) ==
    IF i >= Len(t) THEN <<>>
    ELSE IF t[i + 1] = BACKSLASH /\ Byte(t, i + 1) = SLASH
    THEN UnescapeSlashes(t, i + 1)
    ELSE <<t[i + 1]>> \o UnescapeSlashes(t, i + 1)

\* the content length from which the slash loop is skipped
SlashUnescapeLimit == 16384

HexVal(c) ==
    IF c \in Digits THEN c - ZERO
    ELSE IF c \in Ord("a")..Ord("f") THEN c - Ord("a") + 10
    ELSE IF c \in Ord("A")..Ord("F") THEN c - Ord("A") + 10
    ELSE -1

\* the value of the n hex digits at offset i of t, -1 unless all n are there
RECURSIVE HexRun(_, _, _)
HexRun(t, i, n) ==
    IF n = 0 THEN 0
    ELSE IF i + n > Len(t) THEN -1
    ELSE LET hi == HexRun(t, i, n - 1)
             d  == HexVal(t[i + n])
         IN  IF hi < 0 \/ d < 0 THEN -1 ELSE 16 * hi + d

IsOctal(c) == c \in ZERO..Ord("7")

Decoded(v) == [ok |-> TRUE, v |-> v, exc |-> "", reason |-> ""]
DecodeFailed(exc, reason) == [ok |-> FALSE, v |-> <<>>, exc |-> exc, reason |-> reason]
Emit(cs, rest) == IF rest.ok THEN [rest EXCEPT !.v = cs \o @] ELSE rest

\* The escape decoding of the Python runtime over the content t from offset i:
\* PyUnicode_DecodeUnicodeEscape (uni) or PyString_DecodeEscape (~uni).  Each
\* unescaped byte stands for itself; an unrecognised escape keeps its
\* backslash.  w: a wide (UCS-4) build.
RECURSIVE DecodeEscape(_, _, _, _)
DecodeEscape(t, i, uni, w) ==
    IF i >= Len(t) THEN Decoded(<<>>)
    ELSE IF t[i + 1] # BACKSLASH
    THEN Emit(<<t[i + 1]>>, DecodeEscape(t, i + 1, uni, w))
    ELSE IF i + 1 >= Len(t)
    THEN IF uni THEN DecodeFailed("UnicodeDecodeError", "\\ at end of string")
         ELSE DecodeFailed("ValueError", "Trailing \\ in string")
    ELSE
    LET d == t[i + 2]
        simple == [x \in {BACKSLASH, Ord("'"), QUOTE, Ord("b"), Ord("f"),
                          Ord("t"), Ord("n"), Ord("r"), Ord("v"), Ord("a")} |->
                   CASE x = Ord("b") -> BS [] x = Ord("f") -> FF
                     [] x = Ord("t") -> TAB [] x = Ord("n") -> LF
                     [] x = Ord("r") -> CR [] x = Ord("v") -> VT
                     [] x = Ord("a") -> 7 [] OTHER -> x]
    IN  IF d = LF THEN DecodeEscape(t, i + 2, uni, w)
        ELSE IF d \in DOMAIN simple
        THEN Emit(<<simple[d]>>, DecodeEscape(t, i + 2, uni, w))
        ELSE IF IsOctal(d)
        THEN LET n == IF i + 2 < Len(t) /\ IsOctal(t[i + 3])
                      THEN IF i + 3 < Len(t) /\ IsOctal(t[i + 4]) THEN 3 ELSE 2
                      ELSE 1
                 val == IF n = 1 THEN d - ZERO
                        ELSE IF n = 2 THEN 8 * (d - ZERO) + (t[i + 3] - ZERO)
                        ELSE 64 * (d - ZERO) + 8 * (t[i + 3] - ZERO)
                             + (t[i + 4] - ZERO)
             IN  Emit(<<IF uni THEN val ELSE val % 256>>,
                      DecodeEscape(t, i + 1 + n, uni, w))
        ELSE IF d = Ord("x")
        THEN LET val == HexRun(t, i + 2, 2)
             IN  IF val < 0
                 THEN IF uni
                      THEN DecodeFailed("UnicodeDecodeError", "truncated \\xXX escape")
                      ELSE DecodeFailed("ValueError", "invalid \\x escape")
                 ELSE Emit(<<val>>, DecodeEscape(t, i + 4, uni, w))
        ELSE IF uni /\ d = Ord("u")
        THEN LET val == HexRun(t, i + 2, 4)
             IN  IF val < 0
                 THEN DecodeFailed("UnicodeDecodeError", "truncated \\uXXXX escape")
                 ELSE Emit(<<val>>, DecodeEscape(t, i + 6, uni, w))
        ELSE IF uni /\ d = Ord("U")
        THEN LET val == HexRun(t, i + 2, 8)
             IN  IF val < 0
                 THEN DecodeFailed("UnicodeDecodeError",
                                   "truncated \\UXXXXXXXX escape")
                 ELSE IF val > 1114111
                 THEN DecodeFailed("UnicodeDecodeError", "illegal Unicode character")
                 ELSE IF val <= 65535 \/ w
                 THEN Emit(<<val>>, DecodeEscape(t, i + 10, uni, w))
                 ELSE Emit(<<55296 + (val - 65536) \div 1024,
                             56320 + ((val - 65536) % 1024)>>,
                           DecodeEscape(t, i + 10, uni, w))
        ELSE IF uni /\ d = Ord("N")
        THEN DecodeFailed("UnicodeDecodeError", "malformed \\N character escape")
        ELSE Emit(<<BACKSLASH>>, DecodeEscape(t, i + 1, uni, w))

UnterminatedString == "unterminated string starting at position"
InvalidString == "invalid string starting at position"
CannotDecodeString == "cannot decode string starting at position %d: %s"

\* decode_string with 'limit' for the content length from which the slash
\* loop is skipped
decode_string_within(s, p, au, w, limit) ==
    LET sc == ScanString(s, p + 1, FALSE, NoFlags)
        len == sc.close - p - 1
        raw == Slice(s, p + 1, sc.close)
        content == IF sc.slash_unescape /\ len < limit
                   THEN UnescapeSlashes(raw, 0) ELSE raw
        uni == sc.has_unicode \/ au
        dec == IF uni \/ sc.string_escape
               THEN DecodeEscape(content, 0, uni, w)
               ELSE Decoded(content)
    IN  IF sc.close < 0
        THEN Outcome(NULL, p, DecodeError(UnterminatedString, p))
        ELSE IF ~dec.ok
        THEN Outcome(NULL, p,
                     DecodeError(IF dec.exc = "UnicodeDecodeError"
                                 THEN CannotDecodeString ELSE InvalidString, p))
        ELSE Outcome(IF uni THEN PyUnicode(dec.v) ELSE PyString(dec.v),
                     sc.close + 1, NoError)

\* decode_string, called with the cursor p on the opening quote
decode_string(s, p, au, w) ==
    decode_string_within(s, p, au, w, SlashUnescapeLimit)

-----------------------------------------------------------------------------
(* Decoding: the recursive descent, one action per call, loop iteration or
   return; a frame of stack is one running decode_array or decode_object *)

\* the depth at which Py_EnterRecursiveCall refuses to go deeper
RecursionLimit == 3

Frame(fn, start) ==
    [fn |-> fn, start |-> start,
     next_state |-> IF fn = "array" THEN "ArrayItem_or_ClosingBracket"
                    ELSE "DictionaryKey_or_ClosingBrace",
     object |-> <<>>, key |-> NULL]

Top == stack[Len(stack)]
Pop == SubSeq(stack, 1, Len(stack) - 1)
SetTop(f) == [stack EXCEPT ![Len(stack)] = f]

\* a call of decode_json returns val (NULL with e raised), the cursor at p
Return(val, p, e) ==
    /\ ret' = val
    /\ ptr' = p
    /\ err' = e
    /\ pc' = "return"
    /\ UNCHANGED <<str, stack, depth, encvars, build>>

\* decode_json entering an array or an object without the recursion guard
EnterContainer_NoGuard(fn, p) ==
    /\ depth' = depth + 1
    /\ stack' = Append(stack, Frame(fn, p))
    /\ ptr' = p + 1
    /\ pc' = IF fn = "array" THEN "decode_array" ELSE "decode_object"
    /\ UNCHANGED <<str, ret, err, encvars, build>>

\* decode_json at '{' or '[': the recursion guard, then the first lines of
\* decode_object / decode_array
EnterContainer(fn, p) ==
    IF depth + 1 > RecursionLimit
    THEN Return(NULL, p, RuntimeError("maximum recursion depth exceeded"))
    ELSE /\ depth' = depth + 1
         /\ stack' = Append(stack, Frame(fn, p))
         /\ ptr' = p + 1
         /\ pc' = IF fn = "array" THEN "decode_array" ELSE "decode_object"
         /\ UNCHANGED <<str, ret, err, encvars, build>>

\* decode_array / decode_object return val to decode_json, which leaves the
\* recursion guard and returns it
LeaveContainer(val, p, e) ==
    /\ stack' = Pop
    /\ depth' = depth - 1
    /\ ret' = val
    /\ ptr' = p
    /\ err' = e
    /\ pc' = "return"
    /\ UNCHANGED <<str, encvars, build>>

\* a step inside the running decode_array / decode_object
Continue(f, p, next) ==
    /\ stack' = SetTop(f)
    /\ ptr' = p
    /\ pc' = next
    /\ UNCHANGED <<str, ret, err, depth, encvars, build>>

decode_json ==
    /\ pc = "decode_json"
    /\ LET p == skipSpaces(str, ptr)
           c == Byte(str, p)
           leaf(o) == Return(o.val, o.ptr, o.err)
       IN  IF c = NUL
           THEN Return(NULL, p, DecodeError("empty JSON description", -1))
           ELSE IF c = LBRACE THEN EnterContainer("object", p)
           ELSE IF c = LBRACKET THEN EnterContainer("array", p)
           ELSE IF c = QUOTE THEN leaf(decode_string(str, p, all_unicode, wide))
           ELSE IF c \in {Ord("t"), Ord("f")} THEN leaf(decode_bool(str, p))
           ELSE IF c = Ord("n") THEN leaf(decode_null(str, p))
           ELSE IF c = Ord("N") THEN leaf(decode_nan(str, p))
           ELSE IF c = Ord("I") THEN leaf(decode_inf(str, p))
           ELSE IF c \in {PLUS, MINUS} /\ Byte(str, p + 1) = Ord("I")
           THEN leaf(decode_inf(str, p))
           ELSE IF c \in {PLUS, MINUS} \/ isdigit(c)
           THEN leaf(decode_number(str, p))
           ELSE Return(NULL, p, DecodeError("cannot parse JSON description", -1))

\* decode_array's first item looked for in ArrayItem: no "[]"
decode_array_NoEmpty ==
    /\ pc = "decode_array"
    /\ Top.next_state # "ArrayDone"
    /\ LET f == Top
           p == skipSpaces(str, ptr)
           c == Byte(str, p)
           close == Continue([f EXCEPT !.next_state = "ArrayDone"], p + 1,
                             "decode_array")
       IN  IF c = NUL
           THEN LeaveContainer(NULL, p,
                    DecodeError("unterminated array starting at position", f.start))
           ELSE IF f.next_state \in {"ArrayItem_or_ClosingBracket", "ArrayItem"}
           THEN IF c \in {COMMA, RBRACKET}
                THEN LeaveContainer(NULL, p,
                         DecodeError("expecting array item at position", p))
                ELSE Continue(f, p, "decode_json")
           ELSE IF c = RBRACKET THEN close
           ELSE IF c = COMMA
           THEN Continue([f EXCEPT !.next_state = "ArrayItem"], p + 1,
                         "decode_array")
           ELSE LeaveContainer(NULL, p,
                    DecodeError("expecting ',' or ']' at position", p))

\* one iteration of decode_array's loop
decode_array ==
    /\ pc = "decode_array"
    /\ Top.next_state # "ArrayDone"
    /\ LET f == Top
           p == skipSpaces(str, ptr)
           c == Byte(str, p)
           close == Continue([f EXCEPT !.next_state = "ArrayDone"], p + 1,
                             "decode_array")
       IN  IF c = NUL
           THEN LeaveContainer(NULL, p,
                    DecodeError("unterminated array starting at position", f.start))
           ELSE IF f.next_state = "ArrayItem_or_ClosingBracket" /\ c = RBRACKET
           THEN close
           ELSE IF f.next_state \in {"ArrayItem_or_ClosingBracket", "ArrayItem"}
           THEN IF c \in {COMMA, RBRACKET}
                THEN LeaveContainer(NULL, p,
                         DecodeError("expecting array item at position", p))
                ELSE Continue(f, p, "decode_json")
           ELSE IF c = RBRACKET THEN close
           ELSE IF c = COMMA
           THEN Continue([f EXCEPT !.next_state = "ArrayItem"], p + 1,
                         "decode_array")
           ELSE LeaveContainer(NULL, p,
                    DecodeError("expecting ',' or ']' at position", p))

\* decode_array after decode_json has returned the item
decode_array_item ==
    /\ pc = "return"
    /\ stack # <<>>
    /\ Top.fn = "array"
    /\ IF ret = NULL
       THEN LeaveContainer(NULL, ptr, err)
       ELSE /\ stack' = SetTop([Top EXCEPT
                            !.object = Append(@, ret),
                            !.next_state = "Comma_or_ClosingBracket"])
            /\ ret' = NULL
            /\ pc' = "decode_array"
            /\ UNCHANGED <<str, ptr, err, depth, encvars, build>>

\* decode_array's loop has ended: return the list
decode_array_done ==
    /\ pc = "decode_array"
    /\ Top.next_state = "ArrayDone"
    /\ LeaveContainer(PyList(Top.object), ptr, err)

\* Python equality of two decoded text keys: a str and a unicode object are
\* equal when both hold the same ASCII text
KeyEq(a, b) ==
    /\ a.v = b.v
    /\ a.t = b.t \/ \A i \in 1..Len(a.v) : a.v[i] <= DEL

\* PyDict_SetItem leaving an entry that is already there as it is
PyDict_SetItem_KeepFirst(entries, key, value) ==
    IF \E i \in 1..Len(entries) : KeyEq(entries[i][1], key)
    THEN entries
    ELSE Append(entries, <<key, value>>)

\* PyDict_SetItem on the entries of a dict
PyDict_SetItem(entries, key, value) ==
    IF \E i \in 1..Len(entries) : KeyEq(entries[i][1], key)
    THEN [i \in 1..Len(entries) |->
            IF KeyEq(entries[i][1], key) THEN <<entries[i][1], value>>
            ELSE entries[i]]
    ELSE Append(entries, <<key, value>>)

\* one iteration of decode_object's loop, up to the call that decodes the key
decode_object ==
    /\ pc = "decode_object"
    /\ Top.next_state # "DictionaryDone"
    /\ LET f == Top
           p == skipSpaces(str, ptr)
           c == Byte(str, p)
           close == Continue([f EXCEPT !.next_state = "DictionaryDone"], p + 1,
                             "decode_object")
       IN  IF c = NUL
           THEN LeaveContainer(NULL, p,
                    DecodeError("unterminated object starting at position", f.start))
           ELSE IF f.next_state = "DictionaryKey_or_ClosingBrace" /\ c = RBRACE
           THEN close
           ELSE IF f.next_state \in {"DictionaryKey_or_ClosingBrace", "DictionaryKey"}
           THEN IF c # QUOTE
                THEN LeaveContainer(NULL, p,
                         DecodeError("expecting object property name at position", p))
                ELSE Continue(f, p, "decode_json")
           ELSE IF c = RBRACE THEN close
           ELSE IF c = COMMA
           THEN Continue([f EXCEPT !.next_state = "DictionaryKey"], p + 1,
                         "decode_object")
           ELSE LeaveContainer(NULL, p,
                    DecodeError("expecting ',' or '}' at position", p))

\* decode_object_key reporting the offsets it had before skipping spaces
decode_object_key_StalePosition ==
    /\ pc = "return"
    /\ stack # <<>>
    /\ Top.fn = "object"
    /\ Top.key = NULL
    /\ LET p == skipSpaces(str, ptr)
           q == skipSpaces(str, p + 1)
       IN  IF ret = NULL
           THEN LeaveContainer(NULL, ptr, err)
           ELSE IF Byte(str, p) # COLON
           THEN LeaveContainer(NULL, p,
                    DecodeError("missing colon after object property name at position", ptr))
           ELSE IF Byte(str, q) \in {COMMA, RBRACE}
           THEN LeaveContainer(NULL, q,
                    DecodeError("expecting object property value at position", p + 1))
           ELSE /\ stack' = SetTop([Top EXCEPT !.key = ret])
                /\ ret' = NULL
                /\ ptr' = q
                /\ pc' = "decode_json"
                /\ UNCHANGED <<str, err, depth, encvars, build>>

\* decode_object after decode_json has returned the key: the colon and the
\* look at the value position, up to the call that decodes the value
decode_object_key ==
    /\ pc = "return"
    /\ stack # <<>>
    /\ Top.fn = "object"
    /\ Top.key = NULL
    /\ LET p == skipSpaces(str, ptr)
           q == skipSpaces(str, p + 1)
       IN  IF ret = NULL
           THEN LeaveContainer(NULL, ptr, err)
           ELSE IF Byte(str, p) # COLON
           THEN LeaveContainer(NULL, p,
                    DecodeError("missing colon after object property name at position", p))
           ELSE IF Byte(str, q) \in {COMMA, RBRACE}
           THEN LeaveContainer(NULL, q,
                    DecodeError("expecting object property value at position", q))
           ELSE /\ stack' = SetTop([Top EXCEPT !.key = ret])
                /\ ret' = NULL
                /\ ptr' = q
                /\ pc' = "decode_json"
                /\ UNCHANGED <<str, err, depth, encvars, build>>

\* decode_object after decode_json has returned the value
decode_object_value ==
    /\ pc = "return"
    /\ stack # <<>>
    /\ Top.fn = "object"
    /\ Top.key # NULL
    /\ IF ret = NULL
       THEN LeaveContainer(NULL, ptr, err)
       ELSE /\ stack' = SetTop([Top EXCEPT
                            !.object = PyDict_SetItem(@, Top.key, ret),
                            !.key = NULL,
                            !.next_state = "Comma_or_ClosingBrace"])
            /\ ret' = NULL
            /\ pc' = "decode_object"
            /\ UNCHANGED <<str, ptr, err, depth, encvars, build>>

\* decode_object's loop has ended: return the dict
decode_object_done ==
    /\ pc = "decode_object"
    /\ Top.next_state = "DictionaryDone"
    /\ LeaveContainer(PyDict(Top.object), ptr, err)

ExtraData == "extra data after JSON description at position"

JSON_decode_return_NoSkip ==
    /\ pc = "return"
    /\ stack = <<>>
    /\ IF ret # NULL /\ ptr < Len(str)
       THEN /\ ret' = NULL
            /\ err' = DecodeError(ExtraData, ptr)
       ELSE UNCHANGED <<ret, err>>
    /\ pc' = "done"
    /\ UNCHANGED <<str, ptr, stack, depth, encvars, build>>

\* JSON_decode after decode_json has returned the top-level value
JSON_decode_return ==
    /\ pc = "return"
    /\ stack = <<>>
    /\ LET p == skipSpaces(str, ptr)
       IN  IF ret # NULL /\ p < Len(str)
           THEN /\ ret' = NULL
                /\ err' = DecodeError(ExtraData, p)
                /\ ptr' = p
           ELSE /\ ptr' = IF ret # NULL THEN p ELSE ptr
                /\ UNCHANGED <<ret, err>>
    /\ pc' = "done"
    /\ UNCHANGED <<str, stack, depth, encvars, build>>

\* the state in which JSON_decode calls decode_json on the buffer s
DecodeCall(s, au, w) ==
    /\ str = s
    /\ ptr = 0
    /\ pc = "decode_json"
    /\ stack = <<>>
    /\ ret = NULL
    /\ err = NoError
    /\ depth = 0
    /\ heap = <<>>
    /\ cur = NULL
    /\ object = NULL
    /\ estack = <<>>
    /\ reprs = <<>>
    /\ all_unicode = au
    /\ wide = w

\* every step of a decode call
NextDecode ==
    \/ decode_json
    \/ decode_array
    \/ decode_array_item
    \/ decode_array_done
    \/ decode_object
    \/ decode_object_key
    \/ decode_object_value
    \/ decode_object_done
    \/ JSON_decode_return

-----------------------------------------------------------------------------
(* Encoding: the renderings of the scalar objects *)

hexdigit(n) == IF n < 10 THEN ZERO + n ELSE Ord("a") + (n - 10)

\* the escape \uhhhh of a 16-bit value
EscapeU(c) ==
    <<BACKSLASH, Ord("u"), hexdigit((c \div 4096) % 16),
      hexdigit((c \div 256) % 16), hexdigit((c \div 16) % 16), hexdigit(c % 16)>>

\* encode_string's loop body with the byte 0x7f copied through
encode_string_char_DelThrough(c) ==
    IF c \in {QUOTE, BACKSLASH} THEN <<BACKSLASH, c>>
    ELSE IF c = TAB THEN <<BACKSLASH, Ord("t")>>
    ELSE IF c = LF THEN <<BACKSLASH, Ord("n")>>
    ELSE IF c = CR THEN <<BACKSLASH, Ord("r")>>
    ELSE IF c = FF THEN <<BACKSLASH, Ord("f")>>
    ELSE IF c = BS THEN <<BACKSLASH, Ord("b")>>
    ELSE IF c < SPACE \/ c > DEL THEN EscapeU(c % 256)
    ELSE <<c>>

\* encode_string's loop body on the byte c (0..255) of a str.  The C char is
\* signed or unsigned by platform: a byte above 0x7f is then either negative
\* (below ' ') or at least 0x7f, and is written as c & 0xff either way.
encode_string_char(c) ==
    IF c \in {QUOTE, BACKSLASH} THEN <<BACKSLASH, c>>
    ELSE IF c = TAB THEN <<BACKSLASH, Ord("t")>>
    ELSE IF c = LF THEN <<BACKSLASH, Ord("n")>>
    ELSE IF c = CR THEN <<BACKSLASH, Ord("r")>>
    ELSE IF c = FF THEN <<BACKSLASH, Ord("f")>>
    ELSE IF c = BS THEN <<BACKSLASH, Ord("b")>>
    ELSE IF c < SPACE \/ c >= DEL THEN EscapeU(c % 256)
    ELSE <<c>>

encode_string(s) ==
    <<QUOTE>> \o Concat([i \in 1..Len(s) |-> encode_string_char(s[i])]) \o <<QUOTE>>

\* encode_unicode's loop body on the code unit ch; w: a wide (UCS-4) build
encode_unicode_char(ch, w) ==
    IF ch \in {QUOTE, BACKSLASH} THEN <<BACKSLASH, ch>>
    ELSE IF w /\ ch >= 65536
    THEN EscapeU(((ch \div 1024) % 1024) + 55296) \o EscapeU((ch % 1024) + 56320)
    ELSE IF ch >= 256 THEN EscapeU(ch % 65536)
    ELSE IF ch = TAB THEN <<BACKSLASH, Ord("t")>>
    ELSE IF ch = LF THEN <<BACKSLASH, Ord("n")>>
    ELSE IF ch = CR THEN <<BACKSLASH, Ord("r")>>
    ELSE IF ch = FF THEN <<BACKSLASH, Ord("f")>>
    ELSE IF ch = BS THEN <<BACKSLASH, Ord("b")>>
    ELSE IF ch < SPACE \/ ch >= DEL
    THEN <<BACKSLASH, Ord("u"), ZERO, ZERO, hexdigit((ch \div 16) % 16),
           hexdigit(ch % 16)>>
    ELSE <<ch>>

encode_unicode(u, w) ==
    <<QUOTE>> \o Concat([i \in 1..Len(u) |-> encode_unicode_char(u[i], w)])
    \o <<QUOTE>>

\* the decimal digits of a natural number
RECURSIVE DecDigits(_)
DecDigits(n) ==
    IF n < 10 THEN <<ZERO + n>> ELSE DecDigits(n \div 10) \o <<ZERO + (n % 10)>>

\* PyObject_Str of an int or long
PyInt_Str(n) == IF n < 0 THEN <<MINUS>> \o DecDigits(0 - n) ELSE DecDigits(n)

Zeros(k) == [i \in 1..k |-> ZERO]

\* PyObject_Repr of a finite float, the shortest digits that read back as
\* the same double: fixed notation while the decimal point lies within
\* -4 < decpt <= 16 of the first digit, exponent notation otherwise
PyFloat_Repr(f) ==
    LET ds == DecDigits(f.m)
        n == Len(ds)
        decpt == n + f.e
        ex == decpt - 1
        exd == DecDigits(IF ex < 0 THEN 0 - ex ELSE ex)
        body == IF f.m = 0 THEN <<ZERO, DOT, ZERO>>
                ELSE IF decpt > 16 \/ decpt <= 0 - 4
                THEN <<ds[1]>> \o (IF n > 1 THEN <<DOT>> \o Tail(ds) ELSE <<>>)
                     \o <<Ord("e"), IF ex < 0 THEN MINUS ELSE PLUS>>
                     \o (IF Len(exd) < 2 THEN <<ZERO>> ELSE <<>>) \o exd
                ELSE IF decpt <= 0 THEN <<ZERO, DOT>> \o Zeros(0 - decpt) \o ds
                ELSE IF decpt >= n THEN ds \o Zeros(decpt - n) \o <<DOT, ZERO>>
                ELSE SubSeq(ds, 1, decpt) \o <<DOT>> \o SubSeq(ds, decpt + 1, n)
    IN  (IF f.neg THEN <<MINUS>> ELSE <<>>) \o body

\* encode_object's rendering of a float with NaN rendered by PyObject_Repr
encode_float_ReprNaN(f) ==
    IF f.k = "nan" THEN <<Ord("n"), Ord("a"), Ord("n")>>
    ELSE IF f.k = "inf"
    THEN IF ~f.neg THEN kw_Infinity ELSE kw_MinusInfinity
    ELSE PyFloat_Repr(f)

\* encode_object's branch for a float
encode_float(f) ==
    IF f.k = "nan" THEN <<Ord("N"), Ord("a"), Ord("N")>>
    ELSE IF f.k = "inf"
    THEN IF ~f.neg
         THEN <<Ord("I"), Ord("n"), Ord("f"), Ord("i"), Ord("n"), Ord("i"),
                Ord("t"), Ord("y")>>
         ELSE <<MINUS, Ord("I"), Ord("n"), Ord("f"), Ord("i"), Ord("n"),
                Ord("i"), Ord("t"), Ord("y")>>
    ELSE PyFloat_Repr(f)

-----------------------------------------------------------------------------
(* Encoding: the walk over the containers, one action per call, loop
   iteration or return.  An item of a container is a scalar object or a
   reference to a list, tuple or dict of heap; a frame of estack is one
   running encode_list, encode_tuple or encode_dict. *)

Ref(id) == [t |-> "ref", v |-> id]

\* an object of a type the encoder does not know
PyOther == [t |-> "object", v |-> 0]

EFrame(fn, id) ==
    [fn |-> fn, id |-> id, i |-> 0, pieces |-> <<>>, s |-> <<>>]

ETop == estack[Len(estack)]
EPop == SubSeq(estack, 1, Len(estack) - 1)
ESetTop(f) == [estack EXCEPT ![Len(estack)] = f]

\* A Py_ReprEnter that never finds the object among those being rendered
Py_ReprEntered_Never(id) == FALSE

\* Py_ReprEnter finds the object already marked
Py_ReprEntered(id) == \E i \in 1..Len(reprs) : reprs[i] = id

\* a Py_ReprLeave that leaves the mark where it is
Py_ReprLeave_Keep(rs, id) == rs

\* Py_ReprLeave: the mark of the object is taken off
Py_ReprLeave(rs, id) == SelectSeq(rs, LAMBDA x : x # id)

\* _PyString_Join(sep, pieces) with "," for a separator
PyString_Join_NoSpace(sep, pieces) ==
    IF Len(pieces) = 0 THEN <<>>
    ELSE Concat([i \in 1..Len(pieces) |->
                    IF i = 1 THEN pieces[i] ELSE <<COMMA>> \o pieces[i]])

\* _PyString_Join(sep, pieces)
PyString_Join(sep, pieces) ==
    IF Len(pieces) = 0 THEN <<>>
    ELSE Concat([i \in 1..Len(pieces) |->
                    IF i = 1 THEN pieces[i] ELSE sep \o pieces[i]])

\* the decorations added to the first and last piece, and the join with ", "
Decorate(open, pieces, close) ==
    LET first == [pieces EXCEPT ![1] = <<open>> \o @]
        last  == [first EXCEPT ![Len(first)] = @ \o <<close>>]
    IN  PyString_Join(<<COMMA, SPACE>>, last)

\* encode_object returns val (NULL with the exception e set)
EncodeReturn(val, e) ==
    /\ ret' = val
    /\ err' = e
    /\ pc' = "encode_return"

\* a return that renders null in place of a value that failed
ELeave_Default(val, e, rs) ==
    /\ estack' = EPop
    /\ depth' = depth - 1
    /\ reprs' = rs
    /\ cur' = cur
    /\ IF val = NULL THEN EncodeReturn(PyString(kw_null), NoError)
       ELSE EncodeReturn(val, e)

\* the running encode_list / encode_tuple / encode_dict returns to
\* encode_object, which leaves the recursion guard and returns too
ELeave(val, e, rs) ==
    /\ estack' = EPop
    /\ depth' = depth - 1
    /\ reprs' = rs
    /\ cur' = cur
    /\ EncodeReturn(val, e)

\* the running container function calls encode_object on x
ECall(f, x, rs) ==
    /\ estack' = ESetTop(f)
    /\ reprs' = rs
    /\ cur' = x
    /\ pc' = "encode_object"
    /\ UNCHANGED <<ret, err, depth>>

encode_object ==
    /\ pc = "encode_object"
    /\ LET text(s) == /\ EncodeReturn(PyString(s), NoError)
                      /\ UNCHANGED <<estack, depth>>
           call(fn, where) ==
               IF depth + 1 > RecursionLimit
               THEN /\ EncodeReturn(NULL,
                        RuntimeError("maximum recursion depth exceeded" \o where))
                    /\ UNCHANGED <<estack, depth>>
               ELSE /\ estack' = Append(estack, EFrame(fn, cur.v))
                    /\ depth' = depth + 1
                    /\ pc' = fn
                    /\ UNCHANGED <<ret, err>>
       IN  IF cur = Py_True THEN text(kw_true)
           ELSE IF cur = Py_False THEN text(kw_false)
           ELSE IF cur = Py_None THEN text(kw_null)
           ELSE IF cur.t = "str" THEN text(encode_string(cur.v))
           ELSE IF cur.t = "unicode" THEN text(encode_unicode(cur.v, wide))
           ELSE IF cur.t = "float" THEN text(encode_float(cur.v))
           ELSE IF cur.t = "int" THEN text(PyInt_Str(cur.v))
           ELSE IF cur.t = "ref" /\ heap[cur.v].t = "list"
           THEN call("encode_list", " while encoding a JSON array from a Python list")
           ELSE IF cur.t = "ref" /\ heap[cur.v].t = "tuple"
           THEN call("encode_tuple", " while encoding a JSON array from a Python tuple")
           ELSE IF cur.t = "ref" /\ heap[cur.v].t = "dict"
           THEN call("encode_dict", " while encoding a JSON object")
           ELSE /\ EncodeReturn(NULL, EncodeError("object is not JSON encodable"))
                /\ UNCHANGED <<estack, depth>>
    /\ UNCHANGED <<str, ptr, stack, heap, cur, reprs, object, build>>

\* encode_list's loop from item f.i on: the next call of encode_object, or
\* the assembly of the pieces and the return
encode_list_loop(f) ==
    LET v == heap[f.id].v
    IN  IF f.i < Len(v)
        THEN ECall(f, v[f.i + 1], reprs)
        ELSE ELeave(PyString(Decorate(LBRACKET, f.pieces, RBRACKET)), NoError,
                    Py_ReprLeave(reprs, f.id))

\* encode_list from its first line to its first call of encode_object
encode_list ==
    /\ pc = "encode_list"
    /\ LET f == ETop
           v == heap[f.id].v
       IN  IF Py_ReprEntered(f.id)
           THEN ELeave(NULL,
                    EncodeError("a list with references to itself is not JSON encodable"),
                    reprs)
           ELSE IF Len(v) = 0
           THEN ELeave(PyString(<<LBRACKET, RBRACKET>>), NoError, reprs)
           ELSE ECall(f, v[1], Append(reprs, f.id))
    /\ UNCHANGED <<str, ptr, stack, heap, object, build>>

\* encode_list after encode_object has returned the rendering of an item
encode_list_item ==
    /\ pc = "encode_return"
    /\ estack # <<>>
    /\ ETop.fn = "encode_list"
    /\ IF ret = NULL
       THEN ELeave(NULL, err, Py_ReprLeave(reprs, ETop.id))
       ELSE encode_list_loop([ETop EXCEPT !.pieces = Append(@, ret.v), !.i = @ + 1])
    /\ UNCHANGED <<str, ptr, stack, heap, object, build>>

\* encode_tuple from its first line to its first call of encode_object
encode_tuple ==
    /\ pc = "encode_tuple"
    /\ LET f == ETop
           v == heap[f.id].v
       IN  IF Len(v) = 0
           THEN ELeave(PyString(<<LBRACKET, RBRACKET>>), NoError, reprs)
           ELSE ECall(f, v[1], reprs)
    /\ UNCHANGED <<str, ptr, stack, heap, object, build>>

\* encode_tuple after encode_object has returned the rendering of an item
encode_tuple_item ==
    /\ pc = "encode_return"
    /\ estack # <<>>
    /\ ETop.fn = "encode_tuple"
    /\ LET f == [ETop EXCEPT !.pieces = Append(@, ret.v), !.i = @ + 1]
           v == heap[f.id].v
       IN  IF ret = NULL THEN ELeave(NULL, err, reprs)
           ELSE IF f.i < Len(v) THEN ECall(f, v[f.i + 1], reprs)
           ELSE ELeave(PyString(Decorate(LBRACKET, f.pieces, RBRACKET)), NoError,
                       reprs)
    /\ UNCHANGED <<str, ptr, stack, heap, object, build>>

\* encode_dict's loop from entry f.i on: the key check, the rendering of the
\* key and the colon, and the call of encode_object on the value; or the
\* assembly of the pieces and the return.  rs: the marks with this dict's.
encode_dict_loop(f, rs) ==
    LET v == heap[f.id].v
        key == v[f.i + 1][1]
        s == IF key.t = "str" THEN encode_string(key.v)
             ELSE encode_unicode(key.v, wide)
    IN  IF f.i < Len(v)
        THEN IF key.t \notin {"str", "unicode"}
             THEN ELeave(NULL,
                      EncodeError("JSON encodable dictionaries must have string/unicode keys"),
                      Py_ReprLeave(rs, f.id))
             ELSE ECall([f EXCEPT !.s = s \o <<COLON, SPACE>>], v[f.i + 1][2], rs)
        ELSE ELeave(PyString(Decorate(LBRACE, f.pieces, RBRACE)), NoError,
                    Py_ReprLeave(rs, f.id))

\* encode_dict from its first line to its first call of encode_object
encode_dict ==
    /\ pc = "encode_dict"
    /\ LET f == ETop
           v == heap[f.id].v
       IN  IF Py_ReprEntered(f.id)
           THEN ELeave(NULL,
                    EncodeError("a dict with references to itself is not JSON encodable"),
                    reprs)
           ELSE IF Len(v) = 0
           THEN ELeave(PyString(<<LBRACE, RBRACE>>), NoError, reprs)
           ELSE encode_dict_loop(f, Append(reprs, f.id))
    /\ UNCHANGED <<str, ptr, stack, heap, object, build>>

\* encode_dict after encode_object has returned the rendering of a value
encode_dict_item ==
    /\ pc = "encode_return"
    /\ estack # <<>>
    /\ ETop.fn = "encode_dict"
    /\ IF ret = NULL
       THEN ELeave(NULL, err, Py_ReprLeave(reprs, ETop.id))
       ELSE encode_dict_loop([ETop EXCEPT !.pieces = Append(@, ETop.s \o ret.v),
                                          !.i = @ + 1], reprs)
    /\ UNCHANGED <<str, ptr, stack, heap, object, build>>

\* JSON_encode returns what encode_object returned
JSON_encode_return ==
    /\ pc = "encode_return"
    /\ estack = <<>>
    /\ pc' = "done"
    /\ UNCHANGED <<str, ptr, stack, ret, err, depth, heap, cur, estack, reprs,
                   object, build>>

\* the state in which JSON_encode calls encode_object on x, an object over
\* the containers h
EncodeCall(h, x, au, w) ==
    /\ str = <<>>
    /\ ptr = 0
    /\ pc = "encode_object"
    /\ stack = <<>>
    /\ ret = NULL
    /\ err = NoError
    /\ depth = 0
    /\ heap = h
    /\ cur = x
    /\ object = x
    /\ estack = <<>>
    /\ reprs = <<>>
    /\ all_unicode = au
    /\ wide = w

\* the caller hands the text that JSON_encode returned to JSON_decode
JSON_decode_encoded ==
    /\ pc = "done"
    /\ object # NULL
    /\ str = <<>>
    /\ ret # NULL
    /\ str' = ret.v
    /\ ptr' = 0
    /\ pc' = "decode_json"
    /\ ret' = NULL
    /\ UNCHANGED <<stack, err, depth, heap, cur, estack, reprs, object, build>>

\* every step of an encode call
NextEncode ==
    \/ encode_object
    \/ encode_list
    \/ encode_list_item
    \/ encode_tuple
    \/ encode_tuple_item
    \/ encode_dict
    \/ encode_dict_item
    \/ JSON_encode_return

-----------------------------------------------------------------------------
(* Numbers: every buffer over the number alphabet *)

MaxNumLen == 5

NumAlphabet == {MINUS, PLUS, ZERO, Ord("1"), DOT, Ord("e"), Ord("E")}

Texts(alphabet, n) == UNION {[1..k -> alphabet] : k \in 1..n}

InitNum == \E s \in Texts(NumAlphabet, MaxNumLen) : DecodeCall(s, FALSE, TRUE)

NextNum == decode_json \/ JSON_decode_return

SpecNum == InitNum /\ [][NextNum]_vars

\* The JSON number grammar, part by part, as predicates on a text.
IsDigitRun(s) == Len(s) >= 1 /\ \A i \in 1..Len(s) : s[i] \in Digits
IsIntPart(s) == IsDigitRun(s) /\ (s[1] = ZERO => Len(s) = 1)
IsFracPart(s) == s = <<>> \/ (s[1] = DOT /\ IsDigitRun(Tail(s)))
IsExpPart(s) ==
    \/ s = <<>>
    \/ /\ s[1] \in {Ord("e"), Ord("E")}
       /\ \/ IsDigitRun(Tail(s))
          \/ Len(s) >= 2 /\ s[2] \in {PLUS, MINUS} /\ IsDigitRun(Tail(Tail(s)))

\* s is [sign] int [frac] [exp], the sign drawn from signs
IsNumberLiteral(s, signs) ==
    \E a \in 0..1 : \E b \in a..Len(s) : \E c \in b..Len(s) :
        /\ a = 1 => Len(s) >= 1 /\ s[1] \in signs
        /\ IsIntPart(SubSeq(s, a + 1, b))
        /\ IsFracPart(SubSeq(s, b + 1, c))
        /\ IsExpPart(SubSeq(s, c + 1, Len(s)))

HasFloatMark(s) == \E i \in 1..Len(s) : s[i] \in {DOT, Ord("e"), Ord("E")}

DecodedNumber == pc = "done" /\ ret.t \in {"int", "float"}

\* C4 as stated: a buffer decodes to a number exactly when it is a strict
\* JSON number literal, whose only sign is '-'; the number is an integer
\* exactly when the literal has no '.', 'e' or 'E'.
C4_StrictGrammar ==
    pc = "done" =>
        /\ DecodedNumber <=> IsNumberLiteral(str, {MINUS})
        /\ DecodedNumber => (ret.t = "int" <=> ~HasFloatMark(str))

\* C4 as amended: the same with a leading '+' accepted as well as '-'.
C4_SignedGrammar ==
    pc = "done" =>
        /\ DecodedNumber <=> IsNumberLiteral(str, {MINUS, PLUS})
        /\ DecodedNumber => (ret.t = "int" <=> ~HasFloatMark(str))

\* a '+'-signed literal with a fraction has been decoded as a float
C4_Witness ==
    /\ DecodedNumber
    /\ str[1] = PLUS
    /\ ret.t = "float"
    /\ \E i \in 1..Len(str) : str[i] = DOT

-----------------------------------------------------------------------------
(* Numbers in context: a text over number characters at the top level, after
   whitespace, and as an array item or an object value *)

MaxNumAtLen == 3

NumAtAlphabet == {MINUS, ZERO, Ord("1"), Ord("5"), DOT, Ord("e")}

NumAtPrefixes ==
    {<<>>, <<SPACE>>, <<LBRACKET>>,
     <<LBRACKET, Ord("1"), COMMA, SPACE>>,
     <<LBRACE, QUOTE, Ord("a"), QUOTE, COLON, SPACE>>}

NumAtSuffixes == {<<>>, <<RBRACKET>>, <<RBRACE>>}

InitNumAt ==
    \E pre \in NumAtPrefixes : \E s \in Texts(NumAtAlphabet, MaxNumAtLen) :
        \E suf \in NumAtSuffixes : DecodeCall(pre \o s \o suf, FALSE, TRUE)

SpecNumAt == InitNumAt /\ [][NextDecode]_vars

\* the offset of the first byte at or after p that is not skipped as
\* whitespace (Len(s), the NUL, when there is none)
FirstNonSpace(s, p) ==
    CHOOSE q \in p..Len(s) :
        /\ ~isspace(Byte(s, q))
        /\ \A r \in p..(q - 1) : isspace(Byte(s, r))

\* the value position the call of decode_json is about to look at
ValueAt == FirstNonSpace(str, ptr)

\* a number starts at p: a digit, or a sign that does not start an Infinity
StartsNumber(s, p) ==
    \/ isdigit(Byte(s, p))
    \/ Byte(s, p) \in {PLUS, MINUS} /\ Byte(s, p + 1) # Ord("I")

\* the ends of the well-formed number literals that start at p
LiteralEnds(s, p) ==
    {k \in (p + 1)..Len(s) : IsNumberLiteral(Slice(s, p, k), {MINUS, PLUS})}

Max(S) == CHOOSE x \in S : \A y \in S : y <= x

\* The number at p is malformed: no well-formed literal starts at p, or the
\* longest one is directly followed by a digit (a leading zero), by a '.'
\* that starts no fraction, or by an 'e'/'E' that starts no exponent.
MalformedAt(s, p) ==
    \/ LiteralEnds(s, p) = {}
    \/ LET k == Max(LiteralEnds(s, p))
           lit == Slice(s, p, k)
           c == Byte(s, k)
       IN  \/ isdigit(c)
           \/ c = DOT /\ ~HasFloatMark(lit)
           \/ /\ c \in {Ord("e"), Ord("E")}
              /\ \A i \in 1..Len(lit) : lit[i] \notin {Ord("e"), Ord("E")}

\* C3 as stated: each of the inputs 01, 1., - and .5 fails with 'invalid
\* number starting at position 0' and no value.
C3_FourInputs ==
    (/\ pc = "done"
     /\ str \in {<<ZERO, Ord("1")>>, <<Ord("1"), DOT>>, <<MINUS>>,
                 <<DOT, Ord("5")>>})
        => ret = NULL /\ err = DecodeError(InvalidNumber, 0)

\* C3 as amended: a malformed number that starts with a digit or a sign fails
\* with 'invalid number starting at position N', N the offset of its first
\* character in the whole input, and a well-formed one raises no error; a
\* text that starts with '.' starts no number and fails with the
\* position-less 'cannot parse JSON description'; a failure is handed up
\* unchanged, so no value is returned.
C3_MalformedNumbers ==
    [][/\ (pc = "decode_json" /\ StartsNumber(str, ValueAt)) =>
            IF MalformedAt(str, ValueAt)
            THEN ret' = NULL /\ err' = DecodeError(InvalidNumber, ValueAt)
            ELSE ret'.t \in {"int", "float"} /\ err' = NoError
       /\ (pc = "decode_json" /\ Byte(str, ValueAt) = DOT) =>
            /\ ret' = NULL
            /\ err' = DecodeError("cannot parse JSON description", -1)
       /\ (pc = "return" /\ ret = NULL) => ret' = NULL /\ err' = err
      ]_vars

\* a malformed number inside a container has failed the whole call, the
\* error carrying its offset
C3_Witness ==
    /\ pc = "done"
    /\ ret = NULL
    /\ err.msg = InvalidNumber
    /\ err.pos = 4
    /\ MalformedAt(str, 4)

-----------------------------------------------------------------------------
(* Trailing data: a complete value followed by every short tail *)

MaxTailLen == 3

TrailHeads ==
    {<<Ord("1")>>, <<SPACE, Ord("1")>>,
     <<LBRACKET, Ord("1"), RBRACKET>>,
     <<LBRACE, QUOTE, Ord("a"), QUOTE, COLON, Ord("1"), RBRACE>>,
     <<QUOTE, Ord("a"), QUOTE>>}

TrailAlphabet == {SPACE, LF, Ord("2"), RBRACKET}

InitTrail ==
    \E h \in TrailHeads :
        \E t \in {<<>>} \cup Texts(TrailAlphabet, MaxTailLen) :
            DecodeCall(h \o t, FALSE, TRUE)

SpecTrail == InitTrail /\ [][NextDecode]_vars

\* C2: when the top-level value has been parsed, the call ends at once; it
\* returns the value only if nothing but whitespace follows it, the cursor
\* then at the end of the input, and otherwise fails with 'extra data after
\* JSON description at position N', N the offset of the first byte after the
\* value that is not whitespace.  '1 2' fails at offset 2, '1' returns 1.
C2_TrailingData ==
    [][/\ (pc = "return" /\ stack = <<>> /\ ret # NULL) =>
            /\ pc' = "done"
            /\ IF FirstNonSpace(str, ptr) < Len(str)
               THEN /\ ret' = NULL
                    /\ err' = DecodeError(ExtraData, FirstNonSpace(str, ptr))
               ELSE ret' = ret /\ err' = NoError /\ ptr' = Len(str)
       /\ (pc' = "done" /\ str = <<Ord("1"), SPACE, Ord("2")>>) =>
            ret' = NULL /\ err' = DecodeError(ExtraData, 2)
       /\ (pc' = "done" /\ str = <<Ord("1")>>) => ret' = PyInt(1)
      ]_vars

\* a value, then whitespace, then a byte that is not whitespace: the call
\* has failed at the offset of that byte
C2_Witness ==
    /\ pc = "done"
    /\ ret = NULL
    /\ err.msg = ExtraData
    /\ err.pos = Len(str) - 1
    /\ isspace(Byte(str, err.pos - 1))

-----------------------------------------------------------------------------
(* Arrays: '[' followed by every short text over the array characters *)

MaxArrLen == 4

ArrAlphabet == {LBRACKET, RBRACKET, COMMA, Ord("1"), SPACE, Ord("x")}

InitArr ==
    \E s \in Texts(ArrAlphabet, MaxArrLen) :
        DecodeCall(<<LBRACKET>> \o s, FALSE, TRUE)

NextArr ==
    \/ decode_json
    \/ decode_array
    \/ decode_array_item
    \/ decode_array_done
    \/ JSON_decode_return

SpecArr == InitArr /\ [][NextArr]_vars

\* decode_array is about to run an iteration of its loop
ArrayStep ==
    pc = "decode_array" /\ Top.fn = "array" /\ Top.next_state # "ArrayDone"

\* the running decode_array (or decode_object) fails with e in this step
FailsWith(e) ==
    /\ stack' = Pop
    /\ pc' = "return"
    /\ ret' = NULL
    /\ err' = e

ArrayTransitions ==
    {<<"ArrayItem_or_ClosingBracket", "Comma_or_ClosingBracket">>,
     <<"ArrayItem_or_ClosingBracket", "ArrayDone">>,
     <<"Comma_or_ClosingBracket", "ArrayItem">>,
     <<"Comma_or_ClosingBracket", "ArrayDone">>,
     <<"ArrayItem", "Comma_or_ClosingBracket">>}

\* what holds of every step whichever position its errors carry: the frame
\* starts in ItemOrClose just after '[' and moves only along the machine's
\* transitions; "[]" closes from ItemOrClose; a failure returns no array and
\* a failed item fails the array
ArrayMachine ==
    /\ (Len(stack') = Len(stack) + 1 /\ Top'.fn = "array") =>
            /\ Top'.next_state = "ArrayItem_or_ClosingBracket"
            /\ Top'.object = <<>>
            /\ Byte(str, Top'.start) = LBRACKET
            /\ ptr' = Top'.start + 1
    /\ (Len(stack') = Len(stack) /\ stack # <<>> /\ Top.fn = "array") =>
            \/ Top'.next_state = Top.next_state
            \/ <<Top.next_state, Top'.next_state>> \in ArrayTransitions
    /\ (/\ ArrayStep
        /\ Top.next_state = "ArrayItem_or_ClosingBracket"
        /\ Byte(str, ValueAt) = RBRACKET) =>
            /\ Len(stack') = Len(stack)
            /\ Top'.next_state = "ArrayDone"
            /\ Top'.object = <<>>
            /\ ptr' = ValueAt + 1
    /\ (pc = "decode_array" /\ Top.next_state = "ArrayDone") =>
            /\ stack' = Pop
            /\ ret' = PyList(Top.object)
            /\ err' = NoError
    /\ (pc = "return" /\ ret = NULL) => ret' = NULL /\ err' = err
    /\ (/\ Len(stack') < Len(stack)
        /\ Top.fn = "array"
        /\ Top.next_state # "ArrayDone") => ret' = NULL

\* the four rejections of decode_array, the unterminated one at position u
ArrayRejections(u) ==
    ArrayStep =>
        IF Byte(str, ValueAt) = NUL
        THEN FailsWith(DecodeError("unterminated array starting at position", u))
        ELSE IF /\ Top.next_state = "ArrayItem_or_ClosingBracket"
                /\ Byte(str, ValueAt) = COMMA
        THEN FailsWith(DecodeError("expecting array item at position", ValueAt))
        ELSE IF Top.next_state = "ArrayItem" /\ Byte(str, ValueAt) \in {COMMA, RBRACKET}
        THEN FailsWith(DecodeError("expecting array item at position", ValueAt))
        ELSE IF /\ Top.next_state = "Comma_or_ClosingBracket"
                /\ Byte(str, ValueAt) \notin {COMMA, RBRACKET}
        THEN FailsWith(DecodeError("expecting ',' or ']' at position", ValueAt))
        ELSE err' = NoError

\* C6 as stated: the machine, with every rejection of decode_array carrying
\* the cursor position at which the problem was detected.
C6_CursorPositions == [][ArrayMachine /\ ArrayRejections(ValueAt)]_vars

\* C6 as amended: the machine, with the comma and bracket rejections
\* carrying the cursor position and the unterminated-array rejection
\* carrying the offset of the array's '['.
C6_ArrayMachine == [][ArrayMachine /\ ArrayRejections(Top.start)]_vars

\* "[[1, " has been rejected: the inner array, opened at offset 1, was
\* waiting for an item when the input ended at offset 5
C6_Witness ==
    /\ pc = "done"
    /\ ret = NULL
    /\ err = DecodeError("unterminated array starting at position", 1)
    /\ str = <<LBRACKET, LBRACKET, Ord("1"), COMMA, SPACE>>

-----------------------------------------------------------------------------
(* Objects: "{", or "{" and a first entry, followed by every short run of
   object tokens *)

MaxObjTokens == 4

KeyA == <<QUOTE, Ord("a"), QUOTE>>

ObjTokens ==
    {KeyA, <<COLON>>, <<COMMA>>, <<RBRACE>>, <<Ord("1")>>, <<SPACE>>}

ObjPrefixes ==
    {<<LBRACE>>, <<LBRACE>> \o KeyA \o <<COLON, Ord("1"), COMMA>>}

TokenTexts(tokens, n) ==
    {Concat(ts) : ts \in UNION {[1..k -> tokens] : k \in 1..n}}

InitObj ==
    \E pre \in ObjPrefixes : \E s \in TokenTexts(ObjTokens, MaxObjTokens) :
        DecodeCall(pre \o s, FALSE, TRUE)

NextObj ==
    \/ decode_json
    \/ decode_object
    \/ decode_object_key
    \/ decode_object_value
    \/ decode_object_done
    \/ JSON_decode_return

SpecObj == InitObj /\ [][NextObj]_vars

\* the offset of the first quote at or after p
NextQuote(s, p) ==
    CHOOSE q \in p..Len(s) :
        /\ q = Len(s) \/ s[q + 1] = QUOTE
        /\ \A r \in p..(q - 1) : s[r + 1] # QUOTE

\* The tokens of a text from offset p, whitespace dropped: a quoted string
\* without escapes, a run of digits, or a single other character.
RECURSIVE Tokenize(_, _)
Tokenize(s, p) ==
    IF p >= Len(s) THEN <<>>
    ELSE IF isspace(s[p + 1]) THEN Tokenize(s, p + 1)
    ELSE IF s[p + 1] = QUOTE
    THEN IF NextQuote(s, p + 1) = Len(s) THEN <<"unterminated">>
         ELSE <<"string">> \o Tokenize(s, NextQuote(s, p + 1) + 1)
    ELSE IF isdigit(s[p + 1])
    THEN <<"number">> \o Tokenize(s, skipDigits(s, p))
    ELSE <<CASE s[p + 1] = LBRACE -> "{" [] s[p + 1] = RBRACE -> "}"
             [] s[p + 1] = COLON -> ":" [] s[p + 1] = COMMA -> ","
             [] OTHER -> "other">> \o Tokenize(s, p + 1)

\* ts is '{', zero or more comma-separated entries string ':' value, '}'
IsObjectTokens(ts) ==
    /\ Len(ts) >= 2
    /\ ts[1] = "{"
    /\ ts[Len(ts)] = "}"
    /\ Len(ts) = 2 \/ (Len(ts) - 2) % 4 = 3
    /\ \A i \in 2..(Len(ts) - 1) :
          CASE (i - 2) % 4 = 0 -> ts[i] = "string"
            [] (i - 2) % 4 = 1 -> ts[i] = ":"
            [] (i - 2) % 4 = 2 -> ts[i] \in {"string", "number"}
            [] OTHER -> ts[i] = ","

\* decode_object is about to look for a key
ObjectKeyStep ==
    /\ pc = "decode_object"
    /\ Top.next_state \in {"DictionaryKey_or_ClosingBrace", "DictionaryKey"}

\* decode_object has been handed the key and is about to look for the colon
ObjectColonStep ==
    /\ pc = "return"
    /\ stack # <<>>
    /\ Top.fn = "object"
    /\ Top.key = NULL
    /\ ret # NULL

\* the running decode_object fails with a DecodeError positioned at offset n
RejectsAt(n) ==
    /\ stack' = Pop
    /\ ret' = NULL
    /\ err'.type = "DecodeError"
    /\ err'.pos = n

ColonAt == FirstNonSpace(str, ptr)

\* C5: a text that starts with '{' decodes to an object exactly when it is
\* '{', zero or more comma-separated entries string ':' value, '}'; a key
\* position that holds no string literal, a key not followed by a colon, and
\* a colon followed by ',' or '}' each fail with a DecodeError positioned at
\* the offending character, so that {"a":} fails at offset 5; a failure is
\* handed up unchanged.
C5_ObjectGrammar ==
    [][/\ pc' = "done" =>
            (ret'.t = "dict" <=> IsObjectTokens(Tokenize(str, 0)))
       /\ (/\ ObjectKeyStep
           /\ Byte(str, ValueAt) \notin {NUL, QUOTE}
           /\ ~(/\ Top.next_state = "DictionaryKey_or_ClosingBrace"
                /\ Byte(str, ValueAt) = RBRACE)) => RejectsAt(ValueAt)
       /\ (ObjectColonStep /\ Byte(str, ColonAt) # COLON) => RejectsAt(ColonAt)
       /\ (/\ ObjectColonStep
           /\ Byte(str, ColonAt) = COLON
           /\ Byte(str, FirstNonSpace(str, ColonAt + 1)) \in {COMMA, RBRACE}) =>
                RejectsAt(FirstNonSpace(str, ColonAt + 1))
       /\ (pc = "return" /\ ret = NULL) => ret' = NULL /\ err' = err
       /\ (pc' = "done" /\ str = <<LBRACE>> \o KeyA \o <<COLON, RBRACE>>) =>
            ret' = NULL /\ err'.type = "DecodeError" /\ err'.pos = 5
      ]_vars

\* {"a":} has failed at offset 5, the '}' in the value position
C5_Witness ==
    /\ pc = "done"
    /\ str = <<LBRACE>> \o KeyA \o <<COLON, RBRACE>>
    /\ ret = NULL
    /\ err = DecodeError("expecting object property value at position", 5)

-----------------------------------------------------------------------------
(* Objects with repeated keys: every short run of entries over the keys
   "a", "b" and "\u0061" (which spells a) *)

MaxEntries == 3

KeyB == <<QUOTE, Ord("b"), QUOTE>>
KeyEscapedA ==
    <<QUOTE, BACKSLASH, Ord("u"), ZERO, ZERO, Ord("6"), Ord("1"), QUOTE>>

DupKeys == {KeyA, KeyB, KeyEscapedA}
DupValues == {1, 2}

DupEntries ==
    UNION {[1..k -> DupKeys \X DupValues] : k \in 0..MaxEntries}

RECURSIVE Join(_, _)
Join(ss, sep) ==
    IF ss = <<>> THEN <<>>
    ELSE IF Len(ss) = 1 THEN ss[1]
    ELSE ss[1] \o sep \o Join(Tail(ss), sep)

\* the object text of a run of entries
ObjectText(es) ==
    <<LBRACE>>
    \o Join([i \in 1..Len(es) |-> es[i][1] \o <<COLON, ZERO + es[i][2]>>], <<COMMA>>)
    \o <<RBRACE>>

InitDup ==
    \E es \in DupEntries : \E au \in BOOLEAN : DecodeCall(ObjectText(es), au, TRUE)

SpecDup == InitDup /\ [][NextObj]_vars

\* the text a key literal spells
KeyContent(k) == IF k = KeyB THEN <<Ord("b")>> ELSE <<Ord("a")>>

\* d holds every key of es once, with the value of its last occurrence
LastWins(d, es) ==
    /\ \A i \in 1..Len(es) :
          (\A j \in (i + 1)..Len(es) : KeyContent(es[j][1]) # KeyContent(es[i][1])) =>
             /\ Cardinality({n \in 1..Len(d) : d[n][1].v = KeyContent(es[i][1])}) = 1
             /\ \A n \in 1..Len(d) :
                   d[n][1].v = KeyContent(es[i][1]) => d[n][2] = PyInt(es[i][2])
    /\ \A n \in 1..Len(d) :
          /\ d[n][1].t \in {"str", "unicode"}
          /\ \E i \in 1..Len(es) : d[n][1].v = KeyContent(es[i][1])

\* C7: an object text that repeats a key decodes without error to an object
\* that holds each key once, mapped to the value of its last occurrence.
C7_LastWins ==
    pc = "done" =>
        \E es \in DupEntries :
            /\ str = ObjectText(es)
            /\ err = NoError
            /\ ret # NULL
            /\ ret.t = "dict"
            /\ LastWins(ret.v, es)

\* {"a":1,"a":2} has been decoded to the object that maps a to 2
C7_Witness ==
    /\ pc = "done"
    /\ str = ObjectText(<<<<KeyA, 1>>, <<KeyA, 2>>>>)
    /\ ret = PyDict(<<<<PyString(<<Ord("a")>>), PyInt(2)>>>>)

-----------------------------------------------------------------------------
(* Values to encode: every scalar over small alphabets, and every chain of
   containers in which a container holds sample scalars and references to
   the next container of the chain *)

MaxTextLen == 2
MaxItems == 2
MaxNest == 2

StrAlphabet == {Ord("a"), QUOTE, BACKSLASH, SLASH, TAB, NUL, DEL, 233}

\* a, a quote, a line feed, e-acute, the euro sign, a lone high surrogate
\* and, where a code unit can hold it, U+1F600
UniAlphabet(w) ==
    {Ord("a"), QUOTE, LF, 233, 8364, 55357} \cup (IF w THEN {128512} ELSE {})

Floats ==
    {PyFloat_NaN, PyFloat_Inf, PyFloat_NegInf, PyFinite(FALSE, 0, 0),
     PyFinite(TRUE, 0, 0), PyFinite(FALSE, 15, -1), PyFinite(TRUE, 25, -6),
     PyFinite(FALSE, 1, 16), PyFinite(FALSE, 1, 2), PyFinite(FALSE, 1, -3),
     PyFinite(FALSE, 12, 99)}

Scalars(w) ==
    {Py_None, Py_True, Py_False}
    \cup {PyInt(n) : n \in {0, 7, 0 - 120}}
    \cup Floats
    \cup {PyString(s) : s \in {<<>>} \cup Texts(StrAlphabet, MaxTextLen)}
    \cup {PyUnicode(u) : u \in {<<>>} \cup Texts(UniAlphabet(w), MaxTextLen)}

ItemSample == {Py_None, PyString(<<Ord("a")>>)}
OuterSample == {PyInt(7)}
DictKeys == {PyString(<<Ord("a")>>), PyUnicode(<<233, QUOTE>>)}

Items(S, n) == UNION {[1..k -> S] : k \in 0..n}

\* the lists, tuples and dicts (with distinct keys) of at most MaxItems
\* items from S
Containers(S) ==
    {[t |-> ty, v |-> s] : ty \in {"list", "tuple"}, s \in Items(S, MaxItems)}
    \cup {[t |-> "dict", v |-> es] :
            es \in {es \in Items(DictKeys \X S, MaxItems) :
                      \A i, j \in 1..Len(es) : i # j => es[i][1].v # es[j][1].v}}

\* the items of c that are the container id
Referring(c, id) ==
    {i \in 1..Len(c.v) :
        IF c.t = "dict" THEN c.v[i][2] = Ref(id) ELSE c.v[i] = Ref(id)}

\* the heaps of n containers in which container k + 1 holds container k
\* once, among items of OuterSample
RECURSIVE Chains(_)
Chains(n) ==
    IF n = 1 THEN {<<c>> : c \in Containers(ItemSample)}
    ELSE {Append(h, c) :
            h \in Chains(n - 1),
            c \in {c \in Containers(OuterSample \cup {Ref(n - 1)}) :
                     Cardinality(Referring(c, n - 1)) = 1}}

AcyclicHeaps == UNION {Chains(n) : n \in 1..MaxNest}

InitValues(flags) ==
    \E au \in flags :
        \/ \E w \in BOOLEAN : \E x \in Scalars(w) : EncodeCall(<<>>, x, au, w)
        \/ \E h \in AcyclicHeaps : EncodeCall(h, Ref(Len(h)), au, TRUE)

InitEnc == InitValues({FALSE})

SpecEnc == InitEnc /\ [][NextEncode]_vars

\* the text of a scalar
ScalarText(x, w) ==
    CASE x = Py_None -> kw_null
      [] x = Py_True -> kw_true
      [] x = Py_False -> kw_false
      [] x.t = "int" -> PyInt_Str(x.v)
      [] x.t = "float" -> encode_float(x.v)
      [] x.t = "str" -> encode_string(x.v)
      [] x.t = "unicode" -> encode_unicode(x.v, w)

\* the text of x over the containers h: brackets or braces about the texts
\* of the items, an entry being key, ": ", value, with ", " between
RECURSIVE Rendering(_, _, _)
Rendering(h, x, w) ==
    IF x.t # "ref" THEN ScalarText(x, w)
    ELSE LET c == h[x.v]
             n == Len(c.v)
         IN  IF c.t = "dict"
             THEN IF n = 0 THEN <<LBRACE, RBRACE>>
                  ELSE <<LBRACE>>
                       \o Join([i \in 1..n |->
                                  Rendering(h, c.v[i][1], w) \o <<COLON, SPACE>>
                                  \o Rendering(h, c.v[i][2], w)], <<COMMA, SPACE>>)
                       \o <<RBRACE>>
             ELSE IF n = 0 THEN <<LBRACKET, RBRACKET>>
                  ELSE <<LBRACKET>>
                       \o Join([i \in 1..n |-> Rendering(h, c.v[i], w)],
                               <<COMMA, SPACE>>)
                       \o <<RBRACKET>>

\* C10: the encoding of an empty array is [] and of an empty object {}; of
\* an array, '[', the encodings of its elements in order joined by ', ',
\* ']'; of an object, '{', its entries key ': ' value joined by ', ', '}'.
C10_ContainerRendering ==
    (pc = "done" /\ object # NULL) =>
        /\ ret # NULL
        /\ err = NoError
        /\ ret.v = Rendering(heap, object, wide)

\* a list of a scalar and a dict of two entries has been rendered
C10_Witness ==
    /\ pc = "done"
    /\ ret # NULL
    /\ Len(heap) = 2
    /\ heap[2].t = "list"
    /\ heap[1].t = "dict"
    /\ Len(heap[1].v) = 2
    /\ heap[2].v = <<PyInt(7), Ref(1)>>
    /\ heap[1].v[1][2] = Py_None
    /\ heap[1].v[2][2] = PyString(<<Ord("a")>>)

\* a character that may stand for itself inside an encoded string
Plain(c) == c \in 32..126 /\ c \notin {QUOTE, BACKSLASH}

\* text from index i on spells the characters cs from index k on: a plain
\* character by itself, any other by an escape that starts with a backslash
\* (two characters, or six for \uhhhh, or two such for a code point above
\* 16 bits), and then the closing quote
RECURSIVE Escapes(_, _, _, _)
Escapes(text, i, cs, k) ==
    IF k > Len(cs) THEN i = Len(text) /\ text[i] = QUOTE
    ELSE IF i >= Len(text) THEN FALSE
    ELSE IF Plain(cs[k]) THEN text[i] = cs[k] /\ Escapes(text, i + 1, cs, k + 1)
    ELSE /\ text[i] = BACKSLASH
         /\ Escapes(text,
                    i + (IF text[i + 1] # Ord("u") THEN 2
                         ELSE IF cs[k] >= 65536 THEN 12 ELSE 6),
                    cs, k + 1)

\* C9: every character of an encoding is printable ASCII 0x20..0x7e; inside
\* an encoded string every byte or code point below 0x20 or at or above
\* 0x7f is an escape sequence, and only printable ASCII other than the
\* quote and the backslash is copied through.
C9_SevenBitSafe ==
    (pc = "done" /\ object # NULL /\ ret # NULL) =>
        /\ \A i \in 1..Len(ret.v) : ret.v[i] \in 32..126
        /\ object.t \in {"str", "unicode"} =>
              /\ ret.v[1] = QUOTE
              /\ Escapes(ret.v, 2, object.v, 1)

\* the bytes DEL and e-acute of a str have been written as escapes
C9_Witness ==
    /\ pc = "done"
    /\ object = PyString(<<DEL, 233>>)
    /\ ret = PyString(<<QUOTE>> \o EscapeU(127) \o EscapeU(233) \o <<QUOTE>>)

-----------------------------------------------------------------------------
(* The special floats: every keyword cut short, with one character changed
   or with one character added, alone, between spaces and inside an array;
   and every float of Floats to encode *)

SpecialKeywords == {kw_NaN, kw_Infinity, kw_PlusInfinity, kw_MinusInfinity}

SubstChars == {Ord("a"), Ord("N"), Ord("I"), Ord("y"), Ord("n"), SPACE, Ord("1")}

Variants(kw) ==
    {SubSeq(kw, 1, k) : k \in 1..Len(kw)}
    \cup {[kw EXCEPT ![i] = c] : i \in 2..Len(kw), c \in SubstChars}
    \cup {kw \o <<c>> : c \in SubstChars}

SpecialContexts ==
    {<< <<>>, <<>> >>,
     << <<SPACE>>, <<SPACE>> >>,
     << <<LBRACKET>>, <<RBRACKET>> >>,
     << <<LBRACKET, Ord("1"), COMMA, SPACE>>, <<RBRACKET>> >>,
     << <<LBRACKET>>, <<COMMA, Ord("1"), RBRACKET>> >>}

InitSpecial ==
    \/ \E kw \in SpecialKeywords : \E v \in Variants(kw) : \E c \in SpecialContexts :
          DecodeCall(c[1] \o v \o c[2], FALSE, TRUE)
    \/ \E f \in Floats : EncodeCall(<<>>, f, FALSE, TRUE)

NextSpecial ==
    \/ decode_json
    \/ decode_array
    \/ decode_array_item
    \/ decode_array_done
    \/ JSON_decode_return
    \/ encode_object
    \/ JSON_encode_return

SpecSpecial == InitSpecial /\ [][NextSpecial]_vars

\* the keyword that the characters at offset p announce, <<>> if none
Announced(s, p) ==
    IF Byte(s, p) = Ord("N") THEN kw_NaN
    ELSE IF Byte(s, p) = Ord("I") THEN kw_Infinity
    ELSE IF Byte(s, p) = PLUS /\ Byte(s, p + 1) = Ord("I") THEN kw_PlusInfinity
    ELSE IF Byte(s, p) = MINUS /\ Byte(s, p + 1) = Ord("I") THEN kw_MinusInfinity
    ELSE <<>>

SpecialValue(kw) ==
    IF kw = kw_NaN THEN PyFloat_NaN
    ELSE IF kw = kw_MinusInfinity THEN PyFloat_NegInf
    ELSE PyFloat_Inf

\* s reads kw from offset p on
StartsWith(s, p, kw) == Len(s) >= p + Len(kw) /\ SubSeq(s, p + 1, p + Len(kw)) = kw

\* C8: NaN, +Infinity and -Infinity are encoded as NaN, Infinity and
\* -Infinity; a value that starts with N, I, +I or -I is decoded to NaN,
\* +Infinity, +Infinity or -Infinity with the cursor moved past the keyword
\* when the remaining buffer starts with NaN, Infinity, +Infinity or
\* -Infinity exactly, and fails with the DecodeError 'cannot parse JSON
\* description' otherwise; a whole text that starts so is accepted only when
\* it is the keyword.
C8_SpecialFloats ==
    [][/\ (pc = "decode_json" /\ Announced(str, ValueAt) # <<>>) =>
            LET kw == Announced(str, ValueAt)
            IN  IF StartsWith(str, ValueAt, kw)
                THEN /\ ret' = SpecialValue(kw)
                     /\ ptr' = ValueAt + Len(kw)
                     /\ err' = NoError
                ELSE /\ ret' = NULL
                     /\ err' = DecodeError(CannotParseCtx, -1)
       /\ (pc' = "done" /\ object = NULL /\ Announced(str, 0) # <<>>) =>
            LET kw == Announced(str, 0)
            IN  IF /\ StartsWith(str, 0, kw)
                   /\ \A i \in (Len(kw) + 1)..Len(str) : isspace(str[i])
                THEN ret' = SpecialValue(kw)
                ELSE ret' = NULL /\ err'.type = "DecodeError"
       /\ (pc = "encode_object" /\ cur.t = "float" /\ cur.v.k # "fin") =>
            /\ err' = NoError
            /\ ret' = PyString(IF cur.v.k = "nan" THEN kw_NaN
                               ELSE IF cur.v.neg THEN kw_MinusInfinity
                               ELSE kw_Infinity)
      ]_vars

\* +Infinity has been decoded to the positive infinity, the cursor past it
C8_Witness ==
    /\ pc = "done"
    /\ str = kw_PlusInfinity
    /\ ret = PyFloat_Inf
    /\ ptr = 9

-----------------------------------------------------------------------------
(* Round trips: each value is encoded and the text handed to decode *)

InitRound == InitValues(BOOLEAN)

NextRound ==
    \/ NextEncode
    \/ JSON_decode_encoded
    \/ NextDecode

SpecRound == InitRound /\ [][NextRound]_vars

\* the value x stands for over the containers h, as a tree
RECURSIVE ValueOf(_, _)
ValueOf(h, x) ==
    IF x.t # "ref" THEN x
    ELSE LET c == h[x.v]
         IN  IF c.t = "dict"
             THEN PyDict([i \in 1..Len(c.v) |-> <<c.v[i][1], ValueOf(h, c.v[i][2])>>])
             ELSE [t |-> c.t, v |-> [i \in 1..Len(c.v) |-> ValueOf(h, c.v[i])]]

\* b is structurally equal to a: arrays item by item, objects entry by
\* entry whatever the order, text by content, numbers by value, NaN as NaN
RECURSIVE SameValue(_, _)
SameValue(a, b) ==
    IF a.t \in {"list", "tuple"}
    THEN /\ b.t = "list"
         /\ Len(b.v) = Len(a.v)
         /\ \A i \in 1..Len(a.v) : SameValue(a.v[i], b.v[i])
    ELSE IF a.t = "dict"
    THEN /\ b.t = "dict"
         /\ Len(b.v) = Len(a.v)
         /\ \A i \in 1..Len(a.v) : \E j \in 1..Len(b.v) :
               /\ b.v[j][1].t \in {"str", "unicode"}
               /\ b.v[j][1].v = a.v[i][1].v
               /\ SameValue(a.v[i][2], b.v[j][2])
    ELSE IF a.t \in {"str", "unicode"}
    THEN b.t \in {"str", "unicode"} /\ b.v = a.v
    ELSE IF a.t = "float"
    THEN /\ b.t = "float"
         /\ b.v.k = a.v.k
         /\ a.v.k = "inf" => b.v.neg = a.v.neg
         /\ a.v.k = "fin" =>
               /\ b.v.m = a.v.m
               /\ b.v.e = a.v.e
               /\ a.v.m # 0 => b.v.neg = a.v.neg
    ELSE b = a

\* the round trip of the value given to encode has come to its end
RoundTripDone == pc = "done" /\ object # NULL /\ str # <<>>

\* C1: encode succeeds on every value, and decode of the text succeeds with
\* a value structurally equal to the one encoded.
C1_RoundTrip ==
    (pc = "done" /\ object # NULL) =>
        /\ ret # NULL
        /\ err = NoError
        /\ str # <<>> => SameValue(ValueOf(heap, object), ret)

\* the value holds a code point above 16 bits
HasAstral(x) == x.t = "unicode" /\ \E i \in 1..Len(x.v) : x.v[i] >= 65536

\* the round trip of every value without a code point above 16 bits
C1_RoundTripBMP ==
    (pc = "done" /\ object # NULL /\ ~HasAstral(object)) =>
        /\ ret # NULL
        /\ err = NoError
        /\ str # <<>> => SameValue(ValueOf(heap, object), ret)

\* U+1F600 has come back from its round trip on a wide build
C1_Witness ==
    /\ RoundTripDone
    /\ wide
    /\ object = PyUnicode(<<128512>>)

-----------------------------------------------------------------------------
(* Containers that hold themselves: rings of containers, each holding the
   next, the last one holding one of the ring (or, for comparison, none) *)

MaxRing == 3

\* the containers that hold x: as the only item, after another item, as the
\* value of the only entry
Holders(x) ==
    {[t |-> "list", v |-> <<x>>],
     [t |-> "list", v |-> <<PyInt(7), x>>],
     [t |-> "tuple", v |-> <<x>>],
     [t |-> "dict", v |-> << <<PyString(<<Ord("a")>>), x>> >>]}

\* the heaps of n containers in which container k + 1 holds container k
RECURSIVE Rings(_, _)
Rings(n, back) ==
    IF n = 1 THEN {<<c>> : c \in Holders(back)}
    ELSE {Append(h, c) : h \in Rings(n - 1, back), c \in Holders(Ref(n - 1))}

\* a tuple is built with its items and cannot be put into itself: a ring
\* closes through a list or a dict
Closable(h, back) ==
    back.t = "ref" => \E k \in 1..back.v : h[k].t # "tuple"

RingHeaps ==
    UNION {UNION {{h \in Rings(n, back) : Closable(h, back)} :
                    back \in {PyInt(7)} \cup {Ref(j) : j \in 1..n}} :
             n \in 1..MaxRing}

InitRing == \E h \in RingHeaps : EncodeCall(h, Ref(Len(h)), FALSE, TRUE)

SpecRing == InitRing /\ [][NextEncode]_vars /\ WF_vars(NextEncode)

\* the containers that container id of h holds
Children(h, id) ==
    {x.v : x \in {y \in {IF h[id].t = "dict" THEN h[id].v[i][2] ELSE h[id].v[i] :
                          i \in 1..Len(h[id].v)} : y.t = "ref"}}

RECURSIVE Closure(_, _)
Closure(h, S) ==
    LET T == S \cup UNION {Children(h, i) : i \in S}
    IN  IF T = S THEN S ELSE Closure(h, T)

\* the containers held by container id, directly or transitively
Descendants(h, id) == Closure(h, Children(h, id))

\* a container of the value x is contained in itself
SelfContained(h, x) ==
    /\ x.t = "ref"
    /\ \E id \in {x.v} \cup Descendants(h, x.v) : id \in Descendants(h, id)

SelfReference ==
    {EncodeError("a list with references to itself is not JSON encodable"),
     EncodeError("a dict with references to itself is not JSON encodable")}

MaxFaultNest == 3

\* the containers that hold x, with or without an item before or after it
FaultHolders(x) ==
    Holders(x) \cup
    {[t |-> "list", v |-> <<x, PyInt(7)>>],
     [t |-> "tuple", v |-> <<Py_None, x>>],
     [t |-> "dict", v |-> << <<PyString(<<Ord("a")>>), x>>,
                             <<PyString(<<Ord("b")>>), Py_None>> >>]}

\* the dicts with a key that is no text, first or after a good entry
BadKeyDicts ==
    {[t |-> "dict", v |-> << <<PyInt(1), Py_None>> >>],
     [t |-> "dict", v |-> << <<Py_None, PyOther>> >>],
     [t |-> "dict", v |-> << <<PyString(<<Ord("a")>>), Py_None>>,
                             <<PyInt(1), Py_None>> >>]}

\* the innermost container: with an unsupported item, with a bad key, or good
FaultBottoms ==
    FaultHolders(PyOther) \cup BadKeyDicts \cup FaultHolders(Py_None)

RECURSIVE FaultHeaps(_)
FaultHeaps(n) ==
    IF n = 1 THEN {<<c>> : c \in FaultBottoms}
    ELSE {Append(h, c) : h \in FaultHeaps(n - 1), c \in FaultHolders(Ref(n - 1))}

InitFault ==
    \/ EncodeCall(<<>>, PyOther, FALSE, TRUE)
    \/ \E n \in 1..MaxFaultNest : \E h \in FaultHeaps(n) :
           EncodeCall(h, Ref(n), FALSE, TRUE)

SpecFault == InitFault /\ [][NextEncode]_vars

NotEncodable == EncodeError("object is not JSON encodable")
BadKey == EncodeError("JSON encodable dictionaries must have string/unicode keys")

\* the first fault met when the items of x are visited in order, the key of
\* an entry before its value; NoError when there is none (h has no ring)
RECURSIVE FirstFault(_, _), FirstFaultFrom(_, _, _)
FirstFault(h, x) ==
    IF x.t = "ref" THEN FirstFaultFrom(h, h[x.v], 1)
    ELSE IF x = PyOther THEN NotEncodable
    ELSE NoError

FirstFaultFrom(h, c, i) ==
    IF i > Len(c.v) THEN NoError
    ELSE IF c.t = "dict" /\ c.v[i][1].t \notin {"str", "unicode"} THEN BadKey
    ELSE LET e == FirstFault(h, IF c.t = "dict" THEN c.v[i][2] ELSE c.v[i])
         IN  IF e # NoError THEN e ELSE FirstFaultFrom(h, c, i + 1)

MaxDeep == 4

\* one level of nesting in a text: what is written before and after the
\* nested value (an array, an object, an array with an array before the
\* value)
Levels ==
    {<< <<LBRACKET>>, <<RBRACKET>> >>,
     << <<LBRACE>> \o KeyA \o <<COLON>>, <<RBRACE>> >>,
     << <<LBRACKET, LBRACKET, RBRACKET, COMMA>>, <<RBRACKET>> >>}

\* the innermost value: a number, nothing, a character that starts no value
Innermost == {<<Ord("1")>>, <<>>, <<Ord("x")>>}

\* <<text up to the innermost value, text after it>> for n levels
RECURSIVE Nested(_)
Nested(n) ==
    IF n = 0 THEN {<< <<>>, <<>> >>}
    ELSE {<<l[1] \o t[1], t[2] \o l[2]>> : l \in Levels, t \in Nested(n - 1)}

\* the nested texts, whole or cut inside or before their closing part
DeepTexts ==
    UNION {UNION {{t[1] \o v \o SubSeq(t[2], 1, k) :
                     v \in Innermost,
                     k \in {0, Len(t[2]) \div 2, Len(t[2])}} :
                    t \in Nested(n)} : n \in 1..MaxDeep}

\* the innermost container of a value: empty, or with one item
DeepBottoms ==
    {[t |-> "list", v |-> <<>>], [t |-> "tuple", v |-> <<>>],
     [t |-> "dict", v |-> <<>>]}
    \cup Holders(PyInt(7)) \cup Holders(PyOther)

\* the containers that hold x, once or twice
DeepHolders(x) == Holders(x) \cup {[t |-> "list", v |-> <<x, x>>]}

RECURSIVE DeepHeaps(_)
DeepHeaps(n) ==
    IF n = 1 THEN {<<c>> : c \in DeepBottoms}
    ELSE {Append(h, c) : h \in DeepHeaps(n - 1), c \in DeepHolders(Ref(n - 1))}

InitDeep ==
    \/ \E s \in DeepTexts : DecodeCall(s, FALSE, TRUE)
    \/ \E n \in 1..MaxDeep : \E h \in DeepHeaps(n) :
           EncodeCall(h, Ref(n), FALSE, TRUE)

NextDeep == NextDecode \/ NextEncode

SpecDeep == InitDeep /\ [][NextDeep]_vars

\* the number of containers open after the first n characters of s (no
\* text of DeepTexts has a bracket or a brace inside a string, and none
\* opens a container after its first fault)
RECURSIVE OpenAt(_, _)
OpenAt(s, n) ==
    IF n = 0 THEN 0
    ELSE OpenAt(s, n - 1)
         + (IF s[n] \in {LBRACKET, LBRACE} THEN 1
            ELSE IF s[n] \in {RBRACKET, RBRACE} THEN -1 ELSE 0)

\* how deep the input of the call is nested: the text of a decode call, the
\* chain of containers of an encode call
Nesting ==
    IF object = NULL
    THEN CHOOSE d \in 0..Len(str) :
             /\ \E n \in 0..Len(str) : OpenAt(str, n) = d
             /\ \A n \in 0..Len(str) : OpenAt(str, n) <= d
    ELSE Len(heap)

\* C13: with the recursion limit L, decode and encode never have more than
\* L container frames nested; every frame is inside the recursion guard and
\* the guard counts nothing else, so that a call that has returned, with a
\* value or with any error, has left the guard as often as it entered it;
\* an input nested deeper than L fails with the recursion error and gives
\* no value, and no other input fails with that error.
C13_NestingGuard ==
    /\ Len(stack) <= RecursionLimit
    /\ Len(estack) <= RecursionLimit
    /\ depth = Len(stack) + Len(estack)
    /\ pc = "done" =>
           /\ depth = 0
           /\ Nesting > RecursionLimit => ret = NULL /\ err.type = "RuntimeError"
           /\ Nesting <= RecursionLimit => err.type # "RuntimeError"

\* decode has refused a text nested one deeper than the limit, and has left
\* the guard of every array and object it had entered
C13_Witness ==
    /\ pc = "done"
    /\ object = NULL
    /\ Nesting = RecursionLimit + 1
    /\ \E n \in 1..Len(str) : str[n] = LBRACE
    /\ ret = NULL
    /\ err.type = "RuntimeError"
    /\ depth = 0

\* ---------------------------------------------------------------------------
\* The characters skipped between tokens
\* ---------------------------------------------------------------------------

MaxGaps == 4

\* the characters tried in the gaps: the six of isspace in the C locale,
\* and backspace, unit separator and delete
GapChars == {SPACE, TAB, LF, CR, VT, FF, BS, 31, DEL}

\* the tokens of a number, an array and an object; a text has a gap before
\* and after each token
GapTokens ==
    {<< <<Ord("1")>> >>,
     << <<LBRACKET>>, <<RBRACKET>> >>,
     << <<LBRACKET>>, <<Ord("1")>>, <<COMMA>>, <<Ord("1")>> >>,
     << <<LBRACKET>>, <<Ord("1")>>, <<COMMA>>, <<Ord("1")>>, <<RBRACKET>> >>,
     << <<LBRACE>>, <<RBRACE>> >>,
     << <<LBRACE>>, KeyA, <<COLON>>, <<Ord("1")>> >>,
     << <<LBRACE>>, KeyA, <<COLON>>, <<Ord("1")>>, <<RBRACE>> >>}

\* the tokens ts with the character c in the gaps of the set g (gap k is
\* before token k, gap Len(ts) + 1 after the last token)
GapText(ts, c, g) ==
    Concat([k \in 1..(Len(ts) + 1) |->
               (IF k \in g THEN <<c>> ELSE <<>>)
               \o (IF k <= Len(ts) THEN ts[k] ELSE <<>>)])

GapTexts ==
    UNION {{GapText(ts, c, g) :
              c \in GapChars,
              g \in {x \in SUBSET (1..(Len(ts) + 1)) : Cardinality(x) <= MaxGaps}} :
             ts \in GapTokens}

InitGap == \E s \in GapTexts : DecodeCall(s, FALSE, TRUE)

SpecGap == InitGap /\ [][NextDecode]_vars

\* the characters of a text of GapTexts that belong to no token
InGap(c) == c \in GapChars

\* the tokens of str are those of a whole value
WholeValue ==
    \E ts \in GapTokens :
        /\ ts[Len(ts)] # <<Ord("1")>> \/ Len(ts) = 1
        /\ SelectSeq(str, LAMBDA c : ~InGap(c)) = Concat(ts)

\* C14: the characters skipped between tokens are exactly space, tab, line
\* feed and carriage return: a whole value with characters between its
\* tokens decodes when all of them are among the four and is refused when
\* one of them is another character, vertical tab and form feed included.
C14_FourCharacters ==
    (pc = "done" /\ WholeValue) =>
        (ret # NULL <=> \A i \in 1..Len(str) :
                            InGap(str[i]) => str[i] \in {SPACE, TAB, LF, CR})

\* what skipSpaces does: the characters skipped are the six of isspace
SixCharacters ==
    (pc = "done" /\ WholeValue) =>
        (ret # NULL <=> \A i \in 1..Len(str) : InGap(str[i]) => isspace(str[i]))

\* a vertical tab before and a form feed after a number were skipped
C14_Witness ==
    /\ pc = "done"
    /\ \E c \in {VT, FF} : str = <<c, Ord("1"), c>>
    /\ ret = PyInt(1)

\* ---------------------------------------------------------------------------
\* Backslash sequences that JSON does not have
\* ---------------------------------------------------------------------------

MaxEscUnits == 2

\* the characters that JSON allows after a backslash
JSONEscapes ==
    {QUOTE, BACKSLASH, SLASH, Ord("b"), Ord("f"), Ord("n"), Ord("r"),
     Ord("t"), Ord("u")}

\* the pieces a string content is made of: a character, escapes of JSON,
\* and a backslash before a character that JSON does not allow there
EscUnits ==
    {<<Ord("a")>>,
     <<BACKSLASH, Ord("n")>>, <<BACKSLASH, BACKSLASH>>, <<BACKSLASH, SLASH>>,
     <<BACKSLASH, QUOTE>>,
     <<BACKSLASH, Ord("u"), ZERO, ZERO, Ord("4"), Ord("1")>>,
     <<BACKSLASH, Ord("q")>>, <<BACKSLASH, Ord("x")>>,
     <<BACKSLASH, Ord("x"), Ord("4"), Ord("1")>>, <<BACKSLASH, Ord("a")>>,
     <<BACKSLASH, Ord("v")>>, <<BACKSLASH, ZERO>>, <<BACKSLASH, Ord("'")>>,
     <<BACKSLASH, Ord("N")>>, <<BACKSLASH, Ord("U")>>}

EscTexts ==
    {<<QUOTE>> \o Concat(us) \o <<QUOTE>> : us \in Texts(EscUnits, MaxEscUnits)}

InitEsc == \E s \in EscTexts : \E au \in BOOLEAN : DecodeCall(s, au, TRUE)

SpecEsc == InitEsc /\ [][NextNum]_vars

\* the string that starts at offset 0 of s has, from offset i on, a
\* backslash before a character that is not in JSONEscapes
RECURSIVE HasInvalidEscape(_, _)
HasInvalidEscape(s, i) ==
    IF i + 1 >= Len(s) THEN FALSE
    ELSE IF s[i + 1] = QUOTE THEN FALSE
    ELSE IF s[i + 1] # BACKSLASH THEN HasInvalidEscape(s, i + 1)
    ELSE IF s[i + 2] \in JSONEscapes THEN HasInvalidEscape(s, i + 2)
    ELSE TRUE

\* C15: a string in which a backslash is followed by a character other than
\* " \ / b f n r t u is refused with a DecodeError ('cannot decode string
\* starting at position N: reason' or 'invalid string starting at position
\* N', N the offset of the opening quote): no text is returned.
C15_InvalidEscapeRefused ==
    (pc = "done" /\ HasInvalidEscape(str, 1)) =>
        /\ ret = NULL
        /\ err.type = "DecodeError"
        /\ err.msg \in {CannotDecodeString, InvalidString}
        /\ err.pos = 0

\* the text "\q" was decoded to a backslash and a q
C15_Witness ==
    /\ pc = "done"
    /\ str = <<QUOTE, BACKSLASH, Ord("q"), QUOTE>>
    /\ ret \in {PyString(<<BACKSLASH, Ord("q")>>), PyUnicode(<<BACKSLASH, Ord("q")>>)}
    /\ err = NoError

\* ---------------------------------------------------------------------------
\* "\/" in contents shorter than, as long as and longer than the length from
\* which decode_string skips its slash loop.  The test is 'len < 16384';
\* the contents here are measured against a limit of a few characters, the
\* comparison being the only use decode_string makes of the number.
\* ---------------------------------------------------------------------------

SlashLimitScaled == 4
MaxSlashUnits == 4

\* the pieces of a content: a character, "\/", "\\" and "\n"
SlashUnits ==
    {<<Ord("a")>>, <<BACKSLASH, SLASH>>, <<BACKSLASH, BACKSLASH>>,
     <<BACKSLASH, Ord("n")>>}

SlashTexts ==
    {<<QUOTE>> \o Concat(us) \o <<QUOTE>> : us \in Texts(SlashUnits, MaxSlashUnits)}

InitSlash == \E s \in SlashTexts : \E au \in BOOLEAN : DecodeCall(s, au, TRUE)

\* decode_json at a quote, decode_string skipping the slash loop from
\* SlashLimitScaled on
decode_string_scaled ==
    /\ pc = "decode_json"
    /\ Byte(str, ptr) = QUOTE
    /\ LET o == decode_string_within(str, ptr, all_unicode, wide, SlashLimitScaled)
       IN  Return(o.val, o.ptr, o.err)

NextSlash == decode_string_scaled \/ JSON_decode_return

SpecSlash == InitSlash /\ [][NextSlash]_vars

\* what the escapes of JSON stand for, in the content of s from offset i on
RECURSIVE JSONUnescaped(_, _)
JSONUnescaped(s, i) ==
    IF i + 1 >= Len(s) THEN <<>>
    ELSE IF s[i + 1] # BACKSLASH THEN <<s[i + 1]>> \o JSONUnescaped(s, i + 1)
    ELSE <<IF s[i + 2] = Ord("n") THEN LF ELSE s[i + 2]>> \o JSONUnescaped(s, i + 2)

ContentLen == Len(str) - 2

\* C16: whatever the length of the content, below, at or above the length
\* limit of the slash loop, every "\/" is decoded to "/", the other
\* characters and escapes get their standard processing, and no backslash
\* of a "\/" is left in the decoded text.
C16_AnyLength ==
    pc = "done" => ret # NULL /\ ret.v = JSONUnescaped(str, 1)

\* what decode_string does: the same for the contents below the limit only
SlashBelowLimit ==
    (pc = "done" /\ ContentLen < SlashLimitScaled) =>
        ret # NULL /\ ret.v = JSONUnescaped(str, 1)

\* a content as long as the limit that ends with "\/" was decoded to a text
\* that ends with a backslash and a slash
C16_Witness ==
    /\ pc = "done"
    /\ ContentLen = SlashLimitScaled
    /\ SubSeq(str, Len(str) - 2, Len(str) - 1) = <<BACKSLASH, SLASH>>
    /\ \A i \in 2..(Len(str) - 3) : str[i] # BACKSLASH
    /\ ret # NULL
    /\ Len(ret.v) = SlashLimitScaled
    /\ SubSeq(ret.v, Len(ret.v) - 1, Len(ret.v)) = <<BACKSLASH, SLASH>>

\* ---------------------------------------------------------------------------
\* The marks of Py_ReprEnter during and after a call of encode, and a
\* second call on the same value
\* ---------------------------------------------------------------------------

\* values with a container held twice, with faults, nested deeper than the
\* recursion limit, and with rings
InitShare ==
    \/ \E n \in 1..MaxDeep : \E h \in DeepHeaps(n) :
           EncodeCall(h, Ref(n), FALSE, TRUE)
    \/ InitRing

\* the caller calls encode again on the value of the call that has returned
JSON_encode_again ==
    /\ pc = "done"
    /\ object # NULL
    /\ str = <<>>
    /\ pc' = "encode_object"
    /\ cur' = object
    /\ ret' = NULL
    /\ err' = NoError
    /\ UNCHANGED <<str, ptr, stack, depth, heap, estack, reprs, object, build>>

NextShare == NextEncode \/ JSON_encode_again

SpecShare == InitShare /\ [][NextShare]_vars

\* the containers with a mark
Marked == {reprs[i] : i \in 1..Len(reprs)}

\* the lists and dicts on the call path: those with a frame of encode_list
\* or encode_dict that is past its Py_ReprEnter
OnPath ==
    {estack[k].id : k \in {j \in 1..Len(estack) :
        /\ estack[j].fn \in {"encode_list", "encode_dict"}
        /\ ~(j = Len(estack) /\ pc \in {"encode_list", "encode_dict"})}}

\* C17: the marked containers are, at every step, the lists and dicts on
\* the current call path, each marked once; when encode has returned, with
\* text or with any error, no container is marked; a self-reference error is
\* raised only for a value that holds a list or dict inside itself, so that
\* a container held twice without being its own ancestor, and a container
\* encoded again after a call that failed, are not rejected.
C17_MarksFollowCallPath ==
    /\ Marked = OnPath
    /\ Len(reprs) = Cardinality(Marked)
    /\ pc = "done" => reprs = <<>>
    /\ (pc = "done" /\ err \in SelfReference) => SelfContained(heap, object)
    /\ (pc = "done" /\ Len(heap) <= RecursionLimit
          /\ ~SelfContained(heap, object) /\ FirstFault(heap, object) = NoError)
       => ret # NULL

\* a list that holds the same list twice has been rendered: the inner list
\* was marked and unmarked twice
C17_Witness ==
    /\ pc = "done"
    /\ Len(heap) = 2
    /\ heap[1] = [t |-> "list", v |-> <<PyInt(7)>>]
    /\ heap[2] = [t |-> "list", v |-> <<Ref(1), Ref(1)>>]
    /\ reprs = <<>>
    /\ ret = PyString(<<LBRACKET, LBRACKET, Ord("7"), RBRACKET, COMMA, SPACE,
                        LBRACKET, Ord("7"), RBRACKET, RBRACKET>>)

\* ---------------------------------------------------------------------------
\* The cursor and the bytes read, on texts cut at every offset
\* ---------------------------------------------------------------------------

\* an array of every kind of scalar
SampleArray ==
    Lit(<<"[", "1", ",", " ", "-", "2", ".", "5", "e", "+", "3", ",", " ",
          "\"", "a", "\\", "n", "\"", ",", " ", "n", "u", "l", "l", ",",
          " ", "t", "r", "u", "e", ",", " ", "f", "a", "l", "s", "e", ",",
          " ", "N", "a", "N", ",", " ", "-", "I", "n", "f", "i", "n", "i",
          "t", "y", ",", " ", "+", "I", "n", "f", "i", "n", "i", "t", "y",
          ",", " ", "I", "n", "f", "i", "n", "i", "t", "y", "]">>)

\* an object with a nested array and object
SampleObject ==
    Lit(<<"{", "\"", "a", "\"", ":", " ", "[", "1", "0", "]", ",", " ",
          "\"", "b", "\"", ":", " ", "{", "\"", "a", "\"", ":", " ", "\"",
          "\\", "/", "\\", "\\", "\"", "}", "}", " ">>)

\* a number between white space, with extra data
SampleNumber ==
    Lit(<<" ", "-", "0", ".", "5", "E", "-", "1", " ", "x">>)

\* a string with escapes
SampleString ==
    Lit(<<"\"", "A", "\\", "\"", "\"", " ">>)

\* empty containers and a signed number
SampleNested ==
    Lit(<<"[", "[", "]", ",", " ", "{", "}", ",", " ", "+", "1", "]">>)


Prefixes(s) == {SubSeq(s, 1, k) : k \in 0..Len(s)}

\* the samples cut at every offset: every routine meets the end of the
\* buffer at each of its reads
CutTexts ==
    Prefixes(SampleArray) \cup Prefixes(SampleObject) \cup Prefixes(SampleNumber)
    \cup Prefixes(SampleString) \cup Prefixes(SampleNested)

InitCut == \E s \in CutTexts : \E au \in BOOLEAN : DecodeCall(s, au, TRUE)

SpecCut == InitCut /\ [][NextDecode]_vars

\* what decode_json reads and returns at offset p of s when no array and no
\* object starts there (for these, NULL and no error)
decode_leaf(s, p, au, w) ==
    LET c == Byte(s, p)
    IN  IF c = NUL
        THEN Outcome(NULL, p, DecodeError("empty JSON description", -1))
        ELSE IF c \in {LBRACE, LBRACKET} THEN Outcome(NULL, p, NoError)
        ELSE IF c = QUOTE THEN decode_string(s, p, au, w)
        ELSE IF c \in {Ord("t"), Ord("f")} THEN decode_bool(s, p)
        ELSE IF c = Ord("n") THEN decode_null(s, p)
        ELSE IF c = Ord("N") THEN decode_nan(s, p)
        ELSE IF c = Ord("I") THEN decode_inf(s, p)
        ELSE IF c \in {PLUS, MINUS} /\ Byte(s, p + 1) = Ord("I")
        THEN decode_inf(s, p)
        ELSE IF c \in {PLUS, MINUS} \/ isdigit(c) THEN decode_number(s, p)
        ELSE Outcome(NULL, p, DecodeError("cannot parse JSON description", -1))

\* what may lie in memory after the terminating NUL of the buffer
Beyond ==
    {<<Ord("1")>>, <<Ord("I")>>, <<QUOTE>>, <<BACKSLASH>>, <<SPACE>>,
     <<RBRACKET>>, <<RBRACE>>, <<COMMA>>, <<COLON>>, <<DOT>>, <<Ord("e")>>,
     <<Ord("l")>>, <<Ord("y")>>, <<Ord("N")>>}

\* the cursor is inside the buffer or on its terminating NUL
CursorInBounds == 0 <= ptr /\ ptr <= Len(str)

\* nothing that the next step reads lies after the NUL: the white space
\* skipped, the character looked at, the white space after it and the scalar
\* scanned are the same whatever follows the NUL in memory
ReadsStopAtNul ==
    \A g \in Beyond :
        LET m == str \o <<NUL>> \o g
            p == skipSpaces(str, ptr)
        IN  /\ skipSpaces(m, ptr) = p
            /\ p <= Len(str)
            /\ Byte(m, p) = Byte(str, p)
            /\ Byte(str, p) # NUL =>
                   /\ skipSpaces(m, p + 1) = skipSpaces(str, p + 1)
                   /\ skipSpaces(str, p + 1) <= Len(str)
            /\ decode_leaf(m, p, all_unicode, wide)
                   = decode_leaf(str, p, all_unicode, wide)
            /\ decode_leaf(str, p, all_unicode, wide).ptr <= Len(str)

\* C18: for a buffer with no NUL before its terminating NUL, the cursor is
\* at every step between the start of the buffer and the terminating NUL,
\* it never moves backwards, and no routine reads a byte after the NUL:
\* white space skipping, keyword matching, the look at the character after
\* a sign, the scans of strings and numbers, the loops of arrays and objects.
C18_CursorBounds ==
    /\ [](CursorInBounds /\ ReadsStopAtNul)
    /\ [][ptr' >= ptr]_vars

\* the text cut after the backslash of a string: the scan stopped at the
\* NUL, the cursor still on the opening quote inside the array
C18_Witness ==
    /\ pc = "done"
    /\ str = SubSeq(SampleArray, 1, 16)
    /\ str[Len(str)] = BACKSLASH
    /\ ret = NULL
    /\ err = DecodeError(UnterminatedString, 13)
    /\ ptr = 13
====
